---- MODULE Spec2Model ----
(***************************************************************************)
(* A model of the template engine of deno-cross (engine.ts) and of the     *)
(* state it keeps: the template root, the global attributes, the template  *)
(* cache and the scanning position of the shared PARTIAL pattern.          *)
(*                                                                         *)
(* Texts are strings.  The engine's regular expressions are transcribed    *)
(* node by node and run by a backtracking matcher with the semantics of    *)
(* JavaScript's RegExp (leftmost match, alternatives in order, greedy and  *)
(* lazy quantifiers, captures), so that every replace() of the source is   *)
(* computed character by character.                                        *)
(***************************************************************************)
EXTENDS Integers, Sequences, FiniteSets, TLC

(***************************************************************************)
(* Strings and characters                                                  *)
(***************************************************************************)
Chars(str) == [i \in 1..Len(str) |-> SubSeq(str, i, i)] \o <<>>

\* F applied to the value of x
Then(x, F(_)) == CHOOSE r \in {F(y) : y \in {x}} : TRUE

RECURSIVE Str(_)
Str(chars) ==
  Then(chars, LAMBDA cs :
    IF cs = <<>> THEN ""
    ELSE IF Len(cs) = 1 THEN cs[1]
    ELSE Str(SubSeq(cs, 1, Len(cs) \div 2)) \o Str(SubSeq(cs, Len(cs) \div 2 + 1, Len(cs))))

RECURSIVE Flatten(_)
Flatten(ss) == IF Len(ss) = 0 THEN <<>> ELSE Head(ss) \o Flatten(Tail(ss))

Range(f) == {f[i] : i \in DOMAIN f}

\* \s, \d and \w of the source's patterns
Space == {" ", "\t", "\n", "\r"}
LineEnd == {"\n", "\r"}
Digit == Range(Chars("0123456789"))
Word == Range(Chars("abcdefghijklmnopqrstuvwxyzABCDEFGHIJKLMNOPQRSTUVWXYZ_")) \cup Digit
WordDollar == Word \cup {"$"}

(***************************************************************************)
(* Regular expressions: a pattern is a sequence of nodes.                  *)
(***************************************************************************)
Node(t, cs, n, sub) == [t |-> t, cs |-> cs, n |-> n, sub |-> sub]
In(cs)        == Node("in", cs, 0, <<>>)        \* [cs]
NotIn(cs)     == Node("out", cs, 0, <<>>)       \* [^cs]
Lit(c)        == In({c})
AnyChar       == NotIn({})                      \* [\s\S], [\w\W]
Dot           == NotIn(LineEnd)                 \* .
IsClass(sub)  == Len(sub) = 1 /\ sub[1].t \in {"in", "out"}
\* (?:sub)* and (?:sub)*?; a quantified character class is one node
Star(sub)     == IF IsClass(sub) THEN Node("star1", sub[1].cs, 0, sub)
                 ELSE Node("star", {}, 0, sub)
LazyStar(sub) == IF IsClass(sub) THEN Node("lazy1", sub[1].cs, 0, sub)
                 ELSE Node("lazy", {}, 0, sub)
Opt(sub)      == Node("opt", {}, 0, sub)        \* (?:sub)?
Alt(subs)     == Node("alt", {}, 0, subs)       \* sub1|sub2|...
\* (sub), the k-th group: where it opens, its nodes, where it closes
Cap(k, sub)   == <<Node("open", {}, k, <<>>)>> \o sub \o <<Node("close", {}, k, <<>>)>>
Plus(sub)     == sub \o <<Star(sub)>>           \* (?:sub)+
LazyPlus(sub) == sub \o <<LazyStar(sub)>>       \* (?:sub)+?
Bos           == Node("bos", {}, 0, <<>>)       \* ^
Eos           == Node("eos", {}, 0, <<>>)       \* $
WordBoundary  == Node("wb", {}, 0, <<>>)        \* \b
LitStr(str)   == [i \in 1..Len(str) |-> Lit(SubSeq(str, i, i))]
\* internal: an iteration of a quantifier must consume input
Progress(i)   == Node("chk", {}, i, <<>>)

MaxGroups == 3
NoCaps == [n \in 1..MaxGroups |-> <<0, 0>>]
NoMatch == [ok |-> FALSE, from |-> 0, to |-> 0, caps |-> NoCaps]

IsWordAt(s, i) == i >= 1 /\ i <= Len(s) /\ s[i] \in Word
Accepts(node, c) == IF node.t = "in" THEN c \in node.cs ELSE c \notin node.cs
Min(S) == CHOOSE x \in S : \A y \in S : x <= y
Max(S) == CHOOSE x \in S : \A y \in S : x >= y
\* the values of a function on 1..n, computed once
Table(f) == f \o <<>>
\* how many characters from position i on the class accepts
RunLength(s, i, class) ==
  Min({j \in i..(Len(s) + 1) : j > Len(s) \/ ~Accepts(class, s[j])}) - i

\* where the j-th node of k stands when k begins at i and the nodes before
\* it match one way only: a class takes one character, anything else none
Place(k, i, j) == i + Cardinality({l \in 1..(j - 1) : k[l].t \in {"in", "out"}})
\* The node matches at i in one way only: a class, an assertion, the
\* boundary of a group, a repeated class where the class does not occur.
Simple(s, node, i) ==
  \/ node.t \in {"in", "out", "bos", "eos", "wb", "chk", "open", "close"}
  \/ node.t \in {"star1", "lazy1"} /\ (i > Len(s) \/ ~Accepts(node.sub[1], s[i]))
\* the simple node matches at i
Fits(s, node, i) ==
  CASE node.t \in {"in", "out"} -> i <= Len(s) /\ Accepts(node, s[i])
    [] node.t = "chk" -> i # node.n
    [] node.t = "bos" -> i = 1
    [] node.t = "eos" -> i = Len(s) + 1
    [] node.t = "wb" -> IsWordAt(s, i - 1) # IsWordAt(s, i)
    [] OTHER -> TRUE
\* How many simple nodes k begins with at i, counted up to the first of
\* them that does not match.
Lead(s, k, i) ==
  Then(<<s, k, i>>, LAMBDA b :
    LET stop(j) == \/ j > Len(b[2])
                   \/ ~Simple(b[1], b[2][j], Place(b[2], b[3], j))
                   \/ ~Fits(b[1], b[2][j], Place(b[2], b[3], j))
    IN Then(CHOOSE j \in 1..(Len(b[2]) + 1) : stop(j) /\ \A l \in 1..(j - 1) : ~stop(l),
            LAMBDA first :
              IF first <= Len(b[2]) /\ Simple(b[1], b[2][first], Place(b[2], b[3], first))
              THEN first ELSE first - 1))
\* The groups after the first p nodes of k, all simple, matched from i:
\* group n spans from where it last opened to where it closed; caps[n] is
\* the span of a closed group and caps[MaxGroups + n][1] is where a group
\* not yet closed opened.
Spans(k, p, i, caps) ==
  IF \A j \in 1..p : k[j].t \notin {"open", "close"} THEN caps
  ELSE [n \in 1..(2 * MaxGroups) |->
     LET g == IF n > MaxGroups THEN n - MaxGroups ELSE n
         opens == {j \in 1..p : k[j].t = "open" /\ k[j].n = g}
         closes == {j \in 1..p : k[j].t = "close" /\ k[j].n = g}
         before == {j \in opens : j < Max(closes)}
     IN IF n > MaxGroups
        THEN IF opens = {} THEN caps[n] ELSE <<Place(k, i, Max(opens)), 0>>
        ELSE IF closes = {} THEN caps[n]
        ELSE <<IF before = {} THEN caps[MaxGroups + n][1] ELSE Place(k, i, Max(before)),
               Place(k, i, Max(closes))>>]
IsOk(m) == m.ok
\* k begins with a class or an assertion that does not match at i
Hopeless(s, k, i) ==
  k # <<>> /\ k[1].t \in {"in", "out", "bos", "eos", "wb"} /\ ~Fits(s, k[1], i)
RECURSIVE MatchNodes(_, _, _, _)
\* a class repeated: the rest matched after n, n - 1, ..., 0 characters
\* (greedy) or after 0, 1, ..., n (lazy)
Rests(s, r, i, n, greedy, caps) ==
  [c \in 1..(n + 1) |->
     IF Hopeless(s, r, IF greedy THEN i + n + 1 - c ELSE i + c - 1) THEN NoMatch
     ELSE MatchNodes(s, r, IF greedy THEN i + n + 1 - c ELSE i + c - 1, caps)] \o <<>>
\* The ways to match k, which begins with no simple node, in the order a
\* backtracking matcher tries them.
Tried(s, k, i, caps) ==
  CASE k = <<>> -> <<[ok |-> TRUE, from |-> 0, to |-> i, caps |-> SubSeq(caps, 1, MaxGroups)]>>
    [] k[1].t \in {"star1", "lazy1"} ->
         Rests(s, Tail(k), i, RunLength(s, i, k[1].sub[1]), k[1].t = "star1", caps)
    [] k[1].t = "star" ->
         <<MatchNodes(s, k[1].sub \o <<Progress(i)>> \o k, i, caps), MatchNodes(s, Tail(k), i, caps)>>
    [] k[1].t = "lazy" ->
         <<MatchNodes(s, Tail(k), i, caps), MatchNodes(s, k[1].sub \o <<Progress(i)>> \o k, i, caps)>>
    [] k[1].t = "opt" ->
         <<MatchNodes(s, k[1].sub \o Tail(k), i, caps), MatchNodes(s, Tail(k), i, caps)>>
    [] k[1].t = "alt" ->
         [n \in 1..Len(k[1].sub) |->
            IF Hopeless(s, k[1].sub[n], i) THEN NoMatch
            ELSE MatchNodes(s, k[1].sub[n] \o Tail(k), i, caps)] \o <<>>
\* The simple nodes k begins with, p of them, then the first way to match
\* the rest that succeeds.
MatchNodes(s, k, i, caps) ==
  CHOOSE m \in {IF \A j \in 1..a[5] : Fits(a[1], a[2][j], Place(a[2], a[3], j))
                THEN Head(SelectSeq(Tried(a[1], SubSeq(a[2], a[5] + 1, Len(a[2])),
                                          Place(a[2], a[3], a[5] + 1),
                                          Spans(a[2], a[5], a[3], a[4])), IsOk) \o <<NoMatch>>)
                ELSE NoMatch : a \in {<<s, k, i, caps, Lead(s, k, i)>>}} : TRUE
\* Match the nodes re against s from position i on, trying the ways to
\* match in the order of a backtracking matcher and returning the first
\* that succeeds; `to` is the position after the match.
Match(s, re, i, caps) ==
  IF Hopeless(s, re, i) THEN NoMatch ELSE MatchNodes(s, re, i, caps \o NoCaps)

\* The leftmost match that starts in lo..hi.
RECURSIVE FirstMatch(_, _, _, _)
FirstMatch(re, s, lo, hi) ==
  IF lo > hi THEN NoMatch
  ELSE IF lo = hi THEN [Match(s, re, lo, NoCaps) EXCEPT !.from = lo]
  ELSE Then(FirstMatch(re, s, lo, (lo + hi) \div 2), LAMBDA a :
         IF a.ok THEN a ELSE FirstMatch(re, s, (lo + hi) \div 2 + 1, hi))

\* RegExp.prototype.exec from position i (lastIndex + 1): the leftmost
\* match at or after i.
RegExpExec(re, str, i) == Then(str, LAMBDA s : FirstMatch(re, s, i, Len(s) + 1))

\* All matches of a global pattern, as String.prototype.replace finds them:
\* from position 1, each search resuming after the previous match (one
\* further after an empty match).
RECURSIVE MatchAll(_, _, _)
MatchAll(re, str, i) ==
  Then(str, LAMBDA s :
    IF i > Len(s) + 1 THEN <<>>
    ELSE Then(RegExpExec(re, s, i), LAMBDA m :
           IF ~m.ok THEN <<>>
           ELSE <<m>> \o MatchAll(re, s, IF m.to = m.from THEN m.to + 1 ELSE m.to)))

\* The text of group n of match m; <<>> for a group that took no part
\* (JavaScript's undefined, which the callbacks only test for emptiness).
Group(s, m, n) ==
  IF m.caps[n][1] = 0 THEN <<>> ELSE SubSeq(s, m.caps[n][1], m.caps[n][2] - 1)
Matched(s, m) == SubSeq(s, m.from, m.to - 1)

\* s with the k-th match replaced by reps[k].
RECURSIVE Splice(_, _, _, _, _)
Splice(s, ms, reps, k, pos) ==
  IF k > Len(ms) THEN SubSeq(s, pos, Len(s))
  ELSE SubSeq(s, pos, ms[k].from - 1) \o reps[k] \o Splice(s, ms, reps, k + 1, ms[k].to)

\* str.replace(re, rep) for a global pattern and a constant replacement
\* that holds no "$".
Replace(str, re, rep) ==
  Then(str, LAMBDA s :
    Then(MatchAll(re, s, 1), LAMBDA ms : Splice(s, ms, [k \in 1..Len(ms) |-> rep], 1, 1)))

(***************************************************************************)
(* The patterns of the engine                                              *)
(***************************************************************************)
Sp == Star(<<In(Space)>>)                        \* \s*
Open == LitStr("{{")
Close == LitStr("}}")

Syntax == [
  \* /\{\{@\s*(\S+?)\s*\}\}/g
  PARTIAL |-> Open \o <<Lit("@"), Sp>> \o Cap(1, LazyPlus(<<NotIn(Space)>>)) \o <<Sp>> \o Close,
  \* /\{\{>\s*(\S+?)\s*\}\}/g
  BLOCK_HOLDER |-> Open \o <<Lit(">"), Sp>> \o Cap(1, LazyPlus(<<NotIn(Space)>>)) \o <<Sp>> \o Close,
  \* /\{\{<\s*(\S+?)\s*\}\}([\s\S]*?)\{\{<\s*\}\}/g
  BLOCK_DEFINE |-> Open \o <<Lit("<"), Sp>> \o Cap(1, LazyPlus(<<NotIn(Space)>>)) \o <<Sp>> \o Close
                   \o Cap(2, <<LazyStar(<<AnyChar>>)>>) \o Open \o <<Lit("<"), Sp>> \o Close,
  \* /\{\{([\s\S]+?(\}?)+)\}\}/g
  EVALUATE |-> Open \o Cap(1, LazyPlus(<<AnyChar>>) \o Plus(Cap(2, <<Opt(<<Lit("}")>>)>>)))
               \o Close,
  \* /\{\{=([\s\S]+?)\}\}/g
  INTERPOLATE |-> Open \o <<Lit("=")>> \o Cap(1, LazyPlus(<<AnyChar>>)) \o Close,
  \* /\{\{\?(\?)?\s*([\s\S]*?)\s*\}\}/g
  CONDITIONAL |-> Open \o <<Lit("?"), Opt(Cap(1, <<Lit("?")>>)), Sp>>
                 \o Cap(2, <<LazyStar(<<AnyChar>>)>>) \o <<Sp>> \o Close,
  \* /\{\{~\s*(?:\}\}|([\s\S]+?)\s*\:\s*([\w$]+)\s*(?:\:\s*([\w$]+))?\s*\}\})/g
  ITERATIVE |-> Open \o <<Lit("~"), Sp,
                  Alt(<< Close,
                         Cap(1, LazyPlus(<<AnyChar>>)) \o <<Sp, Lit(":"), Sp>>
                         \o Cap(2, Plus(<<In(WordDollar)>>))
                         \o <<Sp, Opt(<<Lit(":"), Sp>> \o Cap(3, Plus(<<In(WordDollar)>>))), Sp>>
                         \o Close >>)>>
]

Keywords == <<
  "abstract", "arguments", "async", "await", "boolean", "break", "byte", "case",
  "catch", "char", "class", "const", "continue", "debugger", "default", "delete",
  "do", "double", "else", "enum", "eval", "export", "extends", "false", "final",
  "finally", "float", "for", "function", "goto", "if", "implements", "import",
  "in", "instanceof", "int", "interface", "let", "long", "native", "new", "null",
  "of", "package", "private", "protected", "public", "return", "short", "static",
  "super", "switch", "synchronized", "then", "this", "throw", "throws",
  "transient", "true", "try", "typeof", "undefined", "var", "void", "volatile",
  "while", "with", "yield", "parseInt", "parseFloat", "decodeURI",
  "decodeURIComponent", "encodeURI", "encodeURIComponent", "isFinite", "isNaN",
  "Array", "ArrayBuffer", "Object", "Function", "Math", "Date", "Boolean",
  "String", "RegExp", "Map", "Set", "JSON", "Promise", "Reflect", "Number",
  "BigInt", "Infinity", "Error", "NaN" >>

Variable == [
  \* /\/\*[\w\W]*?\*\/|\/\/[^\n]*\n|\/\/[^\n]*$|"(?:[^"\\]|\\[\w\W])*"
  \*  |'(?:[^'\\]|\\[\w\W])*'|\s*\.\s*[$\w\.]+/g
  REMOVE |-> <<Alt(<<
      LitStr("/*") \o <<LazyStar(<<AnyChar>>)>> \o LitStr("*/"),
      LitStr("//") \o <<Star(<<NotIn({"\n"})>>), Lit("\n")>>,
      LitStr("//") \o <<Star(<<NotIn({"\n"})>>), Eos>>,
      <<Lit("\""), Star(<<Alt(<< <<NotIn({"\"", "\\"})>>, <<Lit("\\"), AnyChar>> >>)>>), Lit("\"")>>,
      <<Lit("'"), Star(<<Alt(<< <<NotIn({"'", "\\"})>>, <<Lit("\\"), AnyChar>> >>)>>), Lit("'")>>,
      <<Sp, Lit("."), Sp>> \o Plus(<<In(WordDollar \cup {"."})>>) >>)>>,
  \* /[^\w$]+/g
  SPLIT |-> Plus(<<NotIn(WordDollar)>>),
  \* /\b(abstract|...|NaN)\b/g
  KEYWORDS |-> <<WordBoundary>>
               \o Cap(1, <<Alt([k \in 1..Len(Keywords) |-> LitStr(Keywords[k])])>>)
               \o <<WordBoundary>>,
  \* /^\d[^,]*|,\d[^,]*/g
  NUMBER |-> <<Alt(<< <<Bos, In(Digit), Star(<<NotIn({","})>>)>>,
                      <<Lit(","), In(Digit), Star(<<NotIn({","})>>)>> >>)>>,
  \* /^,+|,+$/g
  BOUNDARY |-> <<Alt(<< <<Bos>> \o Plus(<<Lit(",")>>), Plus(<<Lit(",")>>) \o <<Eos>> >>)>>,
  \* /^$|,+/
  SPLIT2 |-> <<Alt(<< <<Bos, Eos>>, Plus(<<Lit(",")>>) >>)>>
]

(***************************************************************************)
(* JavaScript objects used as maps.  `blocks`, `unique` and `cache` are    *)
(* created as {} and read with obj[key], so a key that the object does not *)
(* own is looked up on Object.prototype.  An object is a sequence of       *)
(* <<key, value>> pairs, the own properties in insertion order.            *)
(***************************************************************************)
\* Object.prototype's properties a template can name, with the text that
\* String(value) gives for each (all are functions, hence truthy).
ObjectPrototype == [
  constructor |-> "function Object() { [native code] }",
  toString |-> "function toString() { [native code] }",
  valueOf |-> "function valueOf() { [native code] }" ]

HasOwn(obj, key) == \E i \in 1..Len(obj) : obj[i][1] = key
OwnValue(obj, key) ==
  LET i == CHOOSE j \in 1..Len(obj) : obj[j][1] = key /\ \A l \in (j + 1)..Len(obj) : obj[l][1] # key
  IN obj[i][2]
Inherited(key) == key \in DOMAIN ObjectPrototype
\* obj[key] = value
Put(obj, key, value) == Append(obj, <<key, value>>)

(***************************************************************************)
(* Engine: the text functions                                              *)
(***************************************************************************)
RECURSIVE TrimStart(_)
TrimStart(s) == IF s # <<>> /\ Head(s) \in Space THEN TrimStart(Tail(s)) ELSE s
RECURSIVE TrimEnd(_)
TrimEnd(str) ==
  Then(str, LAMBDA s :
    IF s # <<>> /\ s[Len(s)] \in Space THEN TrimEnd(SubSeq(s, 1, Len(s) - 1)) ELSE s)
\* String.prototype.trim
Trim(s) == TrimEnd(TrimStart(s))

\* reduce(tmpl)
Comment == [
  \* /<!--[\s\S]*?-->/g
  HTML |-> LitStr("<!--") \o <<LazyStar(<<AnyChar>>)>> \o LitStr("-->"),
  \* /\/\*[\s\S]*?\*\//g
  MULTILINE |-> LitStr("/*") \o <<LazyStar(<<AnyChar>>)>> \o LitStr("*/"),
  \* /\n\s*\/\/.*/g
  INLINE |-> <<Lit("\n"), Sp>> \o LitStr("//") \o <<Star(<<Dot>>)>>,
  \* /(\r|\n)[\t ]+/g
  LEADING |-> <<In({"\r", "\n"})>> \o Plus(<<In({"\t", " "})>>),
  \* /[\t ]+(\r|\n)/g
  TRAILING |-> Plus(<<In({"\t", " "})>>) \o <<In({"\r", "\n"})>>,
  \* /\r|\n|\t/g
  BREAKS |-> <<In({"\r", "\n", "\t"})>> ]
reduce(tmpl) ==
  Then(Trim(tmpl), LAMBDA t0 :
  Then(Replace(t0, Comment.HTML, <<>>), LAMBDA t1 :
  Then(Replace(t1, Comment.MULTILINE, <<>>), LAMBDA t2 :
  Then(Replace(t2, Comment.INLINE, <<>>), LAMBDA t3 :
  Then(Replace(t3, Comment.LEADING, <<>>), LAMBDA t4 :
  Then(Replace(t4, Comment.TRAILING, <<>>), LAMBDA t5 :
  Replace(t5, Comment.BREAKS, <<>>)))))))

\* escape(tmpl): \ -> \\ and then ' -> \'
Backslash == <<Lit("\\")>>
Quote == <<Lit("'")>>
EscapedQuote == <<Lit("\\"), Lit("'")>>
\* a variant: the backslashes left as they are
escapeQuotes(tmpl) == Replace(tmpl, Quote, <<"\\", "'">>)
escape(tmpl) ==
  Then(Replace(tmpl, Backslash, <<"\\", "\\">>), LAMBDA t1 : Replace(t1, Quote, <<"\\", "'">>))

\* unescape(tmpl): \' -> '
unescape(tmpl) == Replace(tmpl, EscapedQuote, <<"'">>)

\* output(code)
output(code) == Chars("';") \o code \o Chars("out+='")

\* block(tmpl): the definitions are cut out and recorded, the last one of a
\* name overwriting the earlier ones; then each placeholder is replaced by
\* blocks[name] || "".
BlocksOf(s, ms) == [k \in 1..Len(ms) |-> <<Group(s, ms[k], 1), Group(s, ms[k], 2)>>]
BlockOrEmpty(blocks, name) ==
  IF HasOwn(blocks, name) THEN OwnValue(blocks, name)
  ELSE IF Inherited(Str(name)) THEN Chars(ObjectPrototype[Str(name)])
  ELSE <<>>
block(tmpl) ==
  Then(MatchAll(Syntax.BLOCK_DEFINE, tmpl, 1), LAMBDA defs :
  Then(BlocksOf(tmpl, defs), LAMBDA blocks :
  Then(Splice(tmpl, defs, [k \in 1..Len(defs) |-> <<>>], 1, 1), LAMBDA cut :
  Then(MatchAll(Syntax.BLOCK_HOLDER, cut, 1), LAMBDA holders :
    Splice(cut, holders,
           [k \in 1..Len(holders) |-> BlockOrEmpty(blocks, Group(cut, holders[k], 1))], 1, 1)))))

(***************************************************************************)
(* Engine.compile: the four tag passes.  A pass takes and returns          *)
(* [tmpl, codes]: the text and the code fragments pushed so far.           *)
(***************************************************************************)
Pass(st, re, Rep(_, _), Code(_, _)) ==
  Then(MatchAll(re, st.tmpl, 1), LAMBDA ms :
    [tmpl |-> Splice(st.tmpl, ms, [k \in 1..Len(ms) |-> Rep(st.tmpl, ms[k])], 1, 1),
     codes |-> st.codes \o Flatten([k \in 1..Len(ms) |-> Code(st.tmpl, ms[k])])])

InterpolateRep(s, m) == Chars("'+(") \o unescape(Group(s, m, 1)) \o Chars(")+'")
\* a variant: the code of an interpolation is not pushed
InterpolateCodeNone(s, m) == <<>>
InterpolateCode(s, m) == <<unescape(Group(s, m, 1))>>
\* a variant: the interpolation emitted as a statement
interpolateAsStatement(st) ==
  Pass(st, Syntax.INTERPOLATE, LAMBDA s, m : output(unescape(Group(s, m, 1)) \o <<";">>),
       InterpolateCode)
interpolate(st) == Pass(st, Syntax.INTERPOLATE, InterpolateRep, InterpolateCode)

\* a variant: an else-if emitted as an if of its own
ConditionalRepApart(s, m) ==
  LET elseCase == Group(s, m, 1) # <<>>
  IN IF Group(s, m, 2) = <<>>
     THEN output(IF elseCase THEN Chars("}else{") ELSE Chars("}"))
     ELSE output((IF elseCase THEN Chars("}if(") ELSE Chars("if("))
                 \o unescape(Group(s, m, 2)) \o Chars("){"))
ConditionalRep(s, m) ==
  LET elseCase == Group(s, m, 1) # <<>>
  IN IF Group(s, m, 2) = <<>>
     THEN output(IF elseCase THEN Chars("}else{") ELSE Chars("}"))
     ELSE output((IF elseCase THEN Chars("}else if(") ELSE Chars("if("))
                 \o unescape(Group(s, m, 2)) \o Chars("){"))
ConditionalCode(s, m) ==
  IF Group(s, m, 2) = <<>> THEN <<>> ELSE <<unescape(Group(s, m, 2))>>
conditional(st) == Pass(st, Syntax.CONDITIONAL, ConditionalRep, ConditionalCode)

\* a variant: the index counted from 1
IterativeRepFromOne(s, m) ==
  LET arrName == Group(s, m, 1)
      valName == Group(s, m, 2)
      idxName == Group(s, m, 3)
      defI == IF idxName # <<>> THEN Chars("let ") \o idxName \o Chars("=0;") ELSE <<>>
      incI == IF idxName # <<>> THEN idxName \o Chars("++;") ELSE <<>>
  IN IF arrName = <<>> THEN output(Chars("}}"))
     ELSE output(Chars("if(") \o arrName \o Chars("){") \o defI \o Chars("for (let ")
                 \o valName \o Chars(" of ") \o arrName \o Chars("){") \o incI)
IterativeRep(s, m) ==
  LET arrName == Group(s, m, 1)
      valName == Group(s, m, 2)
      idxName == Group(s, m, 3)
      defI == IF idxName # <<>> THEN Chars("let ") \o idxName \o Chars("=-1;") ELSE <<>>
      incI == IF idxName # <<>> THEN idxName \o Chars("++;") ELSE <<>>
  IN IF arrName = <<>> THEN output(Chars("}}"))
     ELSE output(Chars("if(") \o arrName \o Chars("){") \o defI \o Chars("for (let ")
                 \o valName \o Chars(" of ") \o arrName \o Chars("){") \o incI)
IterativeCode(s, m) == IF Group(s, m, 1) = <<>> THEN <<>> ELSE <<Group(s, m, 1)>>
iterative(st) == Pass(st, Syntax.ITERATIVE, IterativeRep, IterativeCode)

EvaluateRep(s, m) == output(unescape(Group(s, m, 1)) \o <<";">>)
EvaluateCode(s, m) == <<unescape(Group(s, m, 1))>>
evaluate(st) == Pass(st, Syntax.EVALUATE, EvaluateRep, EvaluateCode)

(***************************************************************************)
(* Engine.declare                                                          *)
(***************************************************************************)
RECURSIVE Join(_, _)
Join(ss, sep) ==
  IF Len(ss) = 0 THEN <<>>
  ELSE IF Len(ss) = 1 THEN ss[1]
  ELSE ss[1] \o sep \o Join(Tail(ss), sep)

\* String.prototype.split(re): p is the start of the current piece, q the
\* position tried next (both 1-based).
RECURSIVE SplitFrom(_, _, _, _)
SplitFrom(s, re, p, q) ==
  IF q > Len(s) THEN <<SubSeq(s, p, Len(s))>>
  ELSE Then(Match(s, re, q, NoCaps), LAMBDA m :
         IF ~m.ok \/ m.to = p THEN SplitFrom(s, re, p, q + 1)
         ELSE <<SubSeq(s, p, q - 1)>> \o SplitFrom(s, re, m.to, m.to))
Split(s, re) ==
  IF s = <<>> THEN (IF Match(s, re, 1, NoCaps).ok THEN <<>> ELSE <<s>>)
  ELSE SplitFrom(s, re, 1, 1)

\* the loop over varNames: unique[name] is read before it is set
RECURSIVE PrefixVars(_, _)
PrefixVars(varNames, unique) ==
  IF varNames = <<>> THEN <<>>
  ELSE LET name == Head(varNames)
       IN IF HasOwn(unique, name) \/ Inherited(Str(name))
          THEN PrefixVars(Tail(varNames), unique)
          ELSE <<name>> \o PrefixVars(Tail(varNames), Put(unique, name, TRUE))

VarNames(codes) ==
  Then(Join(codes, <<",">>), LAMBDA c0 :
  Then(Replace(c0, Variable.REMOVE, <<>>), LAMBDA c1 :
  Then(Replace(c1, Variable.SPLIT, <<",">>), LAMBDA c2 :
  Then(Replace(c2, Variable.KEYWORDS, <<>>), LAMBDA c3 :
  Then(Replace(c3, Variable.NUMBER, <<>>), LAMBDA c4 :
  Then(Replace(c4, Variable.BOUNDARY, <<>>), LAMBDA c5 :
  Split(c5, Variable.SPLIT2)))))))

VarString(prefixVars) ==
  Join([k \in 1..Len(prefixVars) |-> prefixVars[k] \o Chars("=data.") \o prefixVars[k]], <<",">>)
declare(codes) ==
  Then(PrefixVars(VarNames(codes), <<>>), LAMBDA prefixVars :
    IF prefixVars # <<>> THEN Chars("let ") \o VarString(prefixVars) \o <<";">> ELSE <<>>)

\* compile(tmpl) up to the source handed to new Function
Rewrite(tmpl) ==
  Then(tmpl, LAMBDA t0 :
  Then(block(t0), LAMBDA t1 :
  Then(reduce(t1), LAMBDA t2 :
  Then(escape(t2), LAMBDA t3 :
  Then(interpolate([tmpl |-> t3, codes |-> <<>>]), LAMBDA s1 :
  Then(conditional(s1), LAMBDA s2 :
  Then(iterative(s2), LAMBDA s3 : evaluate(s3))))))))
SourceOf(st) ==
  declare(st.codes) \o Chars("let out='") \o st.tmpl \o Chars("';return out;")

(***************************************************************************)
(* new Function("data", source): the generated source is JavaScript.  The  *)
(* source is cut into tokens and run statement by statement on a machine   *)
(* with block scopes; what the generator can emit for the templates of     *)
(* this model is covered: let, if / else if / else, for-of, blocks,        *)
(* assignments, ++, return, and expressions over strings, numbers, arrays, *)
(* undefined and null.                                                     *)
(***************************************************************************)
IdStart == WordDollar \ Digit
\* one token after optional white space: (identifier)|(number)|(string)|punctuator
Token == <<Sp, Alt(<<
  Cap(1, <<In(IdStart), Star(<<In(WordDollar)>>)>>),
  Cap(2, Plus(<<In(Digit)>>)),
  Cap(3, <<Alt(<<
      <<Lit("'"), Star(<<NotIn({"'", "\\", "\n"})>>),
        Star(<<Lit("\\"), AnyChar, Star(<<NotIn({"'", "\\", "\n"})>>)>>), Lit("'")>>,
      <<Lit("\""), Star(<<NotIn({"\"", "\\", "\n"})>>),
        Star(<<Lit("\\"), AnyChar, Star(<<NotIn({"\"", "\\", "\n"})>>)>>), Lit("\"")>>
    >>)>>),
  LitStr("==="), LitStr("!=="), LitStr("=="), LitStr("!="), LitStr("+="), LitStr("++"),
  LitStr("&&"), LitStr("||"), LitStr("<="), LitStr(">="),
  <<In(Range(Chars("{}()[];,.=+-*/<>!:?")))>> >>)>>

\* the token matched at position i by m: its kind, its text, where the next begins
TokenOf(s, i, m) ==
  LET k == IF m.caps[1][1] # 0 THEN "id" ELSE IF m.caps[2][1] # 0 THEN "num"
           ELSE IF m.caps[3][1] # 0 THEN "str" ELSE "p"
      from == IF k = "id" THEN m.caps[1][1] ELSE IF k = "num" THEN m.caps[2][1]
              ELSE IF k = "str" THEN m.caps[3][1] ELSE m.to - 1
  IN IF ~m.ok THEN [k |-> "bad", s |-> s[i], to |-> i + 1]
     ELSE IF k = "p"
          THEN [k |-> "p", s |-> Str(SubSeq(s, m.to - Len(TrimStart(SubSeq(s, i, m.to - 1))), m.to - 1)),
                to |-> m.to]
          ELSE [k |-> k, s |-> Str(SubSeq(s, from, m.to - 1)), to |-> m.to]
Blank == <<Sp, Eos>>
\* the token read at position i
TokenAt(s, i) ==
  IF i > Len(s) \/ Match(s, Blank, i, NoCaps).ok THEN [k |-> "eof", s |-> "", to |-> Len(s) + 1]
  ELSE Then(Match(s, Token, i, NoCaps), LAMBDA m : TokenOf(s, i, m))

\* the positions where tokens begin: those reached from D by following nxt,
\* the paths doubling in length k times
RECURSIVE Starts(_, _, _)
Starts(D, nxt, k) ==
  Then(<<D, nxt>>, LAMBDA a :
    IF k = 0 THEN a[1]
    ELSE Starts(a[1] \cup {a[2][d] : d \in a[1]},
                Table([i \in 1..Len(a[2]) |-> a[2][a[2][i]]]), k - 1))

Sorted(S) == Table([k \in 1..Cardinality(S) |-> CHOOSE x \in S : Cardinality({y \in S : y < x}) = k - 1])

MaxDoublings == 8
Tokenize(s) ==
  Then(Table([i \in 1..(Len(s) + 1) |-> TokenAt(s, i)]), LAMBDA at :
  Then(Sorted(Starts({1}, Table([i \in 1..(Len(s) + 1) |-> at[i].to]), MaxDoublings)), LAMBDA starts :
    Table([k \in 1..Len(starts) |-> [k |-> at[starts[k]].k, s |-> at[starts[k]].s]])))

(***************************************************************************)
(* JavaScript values                                                       *)
(***************************************************************************)
Undefined == [t |-> "undefined", v |-> 0]
Null == [t |-> "null", v |-> 0]
NaN == [t |-> "nan", v |-> 0]
Num(n) == [t |-> "num", v |-> n]
StrV(str) == [t |-> "str", v |-> str]
Bool(b) == [t |-> "bool", v |-> b]
Arr(elems) == [t |-> "arr", v |-> elems]
\* an object: its own properties as <<key, value>> pairs
Obj(props) == [t |-> "obj", v |-> props]
Fn(text) == [t |-> "fn", v |-> text]

RECURSIVE NumToStr(_)
NumToStr(n) ==
  IF n < 0 THEN "-" \o NumToStr(0 - n)
  ELSE IF n < 10 THEN SubSeq("0123456789", n + 1, n + 1)
  ELSE NumToStr(n \div 10) \o NumToStr(n % 10)

DigitValue(c) == CHOOSE d \in 0..9 : SubSeq("0123456789", d + 1, d + 1) = c
RECURSIVE Pow10(_)
Pow10(n) == IF n = 0 THEN 1 ELSE 10 * Pow10(n - 1)
RECURSIVE StrToNum(_)
StrToNum(cs) ==
  IF Len(cs) = 1 THEN DigitValue(cs[1])
  ELSE LET h == Len(cs) \div 2
       IN StrToNum(SubSeq(cs, 1, h)) * Pow10(Len(cs) - h) + StrToNum(SubSeq(cs, h + 1, Len(cs)))

\* String(v)
RECURSIVE JsToString(_)
JsToString(v) ==
  CASE v.t = "undefined" -> "undefined"
    [] v.t = "null" -> "null"
    [] v.t = "nan" -> "NaN"
    [] v.t = "num" -> NumToStr(v.v)
    [] v.t = "str" -> v.v
    [] v.t = "bool" -> IF v.v THEN "true" ELSE "false"
    [] v.t = "fn" -> v.v
    [] v.t = "obj" -> "[object Object]"
    [] v.t = "arr" ->
         Str(Join([k \in 1..Len(v.v) |->
                     IF v.v[k].t \in {"undefined", "null"} THEN <<>>
                     ELSE Chars(JsToString(v.v[k]))], <<",">>))

\* Boolean(v)
Truthy(v) ==
  CASE v.t \in {"undefined", "null", "nan"} -> FALSE
    [] v.t = "num" -> v.v # 0
    [] v.t = "str" -> v.v # ""
    [] v.t = "bool" -> v.v
    [] OTHER -> TRUE

IsNumeric(str) == str # "" /\ \A i \in 1..Len(str) : SubSeq(str, i, i) \in Digit
\* Number(v)
ToNumber(v) ==
  CASE v.t = "num" -> v
    [] v.t = "null" -> Num(0)
    [] v.t = "bool" -> Num(IF v.v THEN 1 ELSE 0)
    [] v.t = "str" -> IF v.v = "" THEN Num(0)
                      ELSE IF IsNumeric(v.v) THEN Num(StrToNum(Chars(v.v))) ELSE NaN
    [] OTHER -> NaN

\* a + b
JsAdd(a, b) ==
  IF a.t \in {"str", "arr", "obj", "fn"} \/ b.t \in {"str", "arr", "obj", "fn"}
  THEN StrV(JsToString(a) \o JsToString(b))
  ELSE LET x == ToNumber(a)
           y == ToNumber(b)
       IN IF x.t = "nan" \/ y.t = "nan" THEN NaN ELSE Num(x.v + y.v)

\* a - b and a * b
JsArith(op, a, b) ==
  LET x == ToNumber(a)
      y == ToNumber(b)
  IN IF x.t = "nan" \/ y.t = "nan" THEN NaN
     ELSE IF op = "-" THEN Num(x.v - y.v) ELSE Num(x.v * y.v)

\* a === b
StrictEquals(a, b) == a.t = b.t /\ a.t # "nan" /\ a.v = b.v
\* a == b
LooseEquals(a, b) ==
  IF a.t = b.t THEN StrictEquals(a, b)
  ELSE IF a.t \in {"undefined", "null"} \/ b.t \in {"undefined", "null"}
       THEN a.t \in {"undefined", "null"} /\ b.t \in {"undefined", "null"}
  ELSE IF a.t \in {"arr", "obj", "fn"} \/ b.t \in {"arr", "obj", "fn"}
       THEN a.t \in {"str", "arr", "obj", "fn"} /\ b.t \in {"str", "arr", "obj", "fn"}
            /\ JsToString(a) = JsToString(b)
  ELSE LET x == ToNumber(a)
           y == ToNumber(b)
       IN x.t = "num" /\ y.t = "num" /\ x.v = y.v

\* obj[key] for a value of the language
GetMember(v, key) ==
  CASE v.t = "obj" -> IF HasOwn(v.v, key) THEN OwnValue(v.v, key)
                      ELSE IF Inherited(key) THEN Fn(ObjectPrototype[key]) ELSE Undefined
    [] v.t = "arr" -> IF key = "length" THEN Num(Len(v.v))
                      ELSE IF IsNumeric(key) /\ StrToNum(Chars(key)) < Len(v.v)
                           THEN v.v[StrToNum(Chars(key)) + 1]
                      ELSE IF Inherited(key) THEN Fn(ObjectPrototype[key]) ELSE Undefined
    [] v.t = "str" -> IF key = "length" THEN Num(Len(v.v))
                      ELSE IF IsNumeric(key) /\ StrToNum(Chars(key)) < Len(v.v)
                           THEN StrV(SubSeq(v.v, StrToNum(Chars(key)) + 1, StrToNum(Chars(key)) + 1))
                      ELSE IF Inherited(key) THEN Fn(ObjectPrototype[key]) ELSE Undefined
    [] OTHER -> IF Inherited(key) THEN Fn(ObjectPrototype[key]) ELSE Undefined

\* the value of a string literal: quotes off, escapes resolved
EscapeChar(c) == IF c = "n" THEN "\n" ELSE IF c = "t" THEN "\t" ELSE IF c = "r" THEN "\r" ELSE c
Escaped == <<Lit("\\"), AnyChar>>
StringValue(text) ==
  Then(SubSeq(Chars(text), 2, Len(text) - 1), LAMBDA cs :
  Then(MatchAll(Escaped, cs, 1), LAMBDA ms :
    Str(Splice(cs, ms, [k \in 1..Len(ms) |-> <<EscapeChar(cs[ms[k].from + 1])>>], 1, 1))))

(***************************************************************************)
(* Scopes: the global scope, the function scope holding `data`, and one    *)
(* scope per open block.  A scope is a sequence of <<name, value>> pairs.  *)
(***************************************************************************)
\* obj[key] = value, the key keeping its place when it is there already
Set(obj, key, value) ==
  IF HasOwn(obj, key)
  THEN [i \in 1..Len(obj) |-> IF obj[i][1] = key THEN <<key, value>> ELSE obj[i]] \o <<>>
  ELSE Append(obj, <<key, value>>)

\* the global names the generated code can read: undefined, NaN and what the
\* global object inherits from Object.prototype
GlobalScope ==
  << <<"undefined", Undefined>>, <<"NaN", NaN>>,
     <<"constructor", Fn(ObjectPrototype.constructor)>>,
     <<"toString", Fn(ObjectPrototype.toString)>>,
     <<"valueOf", Fn(ObjectPrototype.valueOf)>> >>
Declared(scopes, name) == \E k \in 1..Len(scopes) : HasOwn(scopes[k], name)
ScopeOf(scopes, name) == Max({k \in 1..Len(scopes) : HasOwn(scopes[k], name)})
Lookup(scopes, name) == OwnValue(scopes[ScopeOf(scopes, name)], name)
\* name = value: the innermost declaration, or a new global (sloppy mode)
Assign(scopes, name, value) ==
  LET k == IF Declared(scopes, name) THEN ScopeOf(scopes, name) ELSE 1
  IN [scopes EXCEPT ![k] = Set(@, name, value)]

(***************************************************************************)
(* Expressions.  An evaluation returns the value, the position after the   *)
(* expression and the error raised ("" for none).  With live = FALSE the   *)
(* expression is only read over (the right side of a decided || or &&).    *)
(***************************************************************************)
IsP(toks, i, str) == toks[i].k = "p" /\ toks[i].s = str
IsId(toks, i, str) == toks[i].k = "id" /\ toks[i].s = str
Reserved == {"let", "if", "else", "for", "of", "return", "true", "false", "null",
             "var", "const", "function", "while", "do", "new", "this", "typeof",
             "in", "instanceof", "delete", "void", "switch", "case", "break",
             "continue", "throw", "try", "catch", "finally", "class", "with"}
IsName(toks, i) == toks[i].k = "id" /\ toks[i].s \notin Reserved

Value(v, pc) == [v |-> v, pc |-> pc, err |-> ""]
Fail(e, pc) == [v |-> Undefined, pc |-> pc, err |-> e]

Ops(lvl) ==
  CASE lvl = 1 -> {"||"}
    [] lvl = 2 -> {"&&"}
    [] lvl = 3 -> {"==", "!=", "===", "!=="}
    [] lvl = 4 -> {"+", "-"}
    [] lvl = 5 -> {"*"}

ApplyOp(op, a, b) ==
  CASE op = "||" -> IF Truthy(a) THEN a ELSE b
    [] op = "&&" -> IF Truthy(a) THEN b ELSE a
    [] op = "==" -> Bool(LooseEquals(a, b))
    [] op = "!=" -> Bool(~LooseEquals(a, b))
    [] op = "===" -> Bool(StrictEquals(a, b))
    [] op = "!==" -> Bool(~StrictEquals(a, b))
    [] op = "+" -> JsAdd(a, b)
    [] OTHER -> JsArith(op, a, b)

RECURSIVE Binary(_, _, _, _, _)
RECURSIVE BinaryRest(_, _, _, _, _)
RECURSIVE Unary(_, _, _, _)
RECURSIVE PostfixRest(_, _, _, _)
RECURSIVE Primary(_, _, _, _)

Expr(toks, pc, scopes, live) == Binary(1, toks, pc, scopes, live)

Binary(lvl, toks, pc, scopes, live) ==
  IF lvl > 5 THEN Unary(toks, pc, scopes, live)
  ELSE Then(Binary(lvl + 1, toks, pc, scopes, live), LAMBDA l : BinaryRest(lvl, l, toks, scopes, live))

BinaryRest(lvl, left, toks, scopes, live) ==
  Then(left, LAMBDA l :
    IF l.err # "" \/ toks[l.pc].k # "p" \/ toks[l.pc].s \notin Ops(lvl) THEN l
    ELSE LET op == toks[l.pc].s
             decided == (op = "||" /\ Truthy(l.v)) \/ (op = "&&" /\ ~Truthy(l.v))
         IN Then(Binary(lvl + 1, toks, l.pc + 1, scopes, live /\ ~decided), LAMBDA r :
              IF r.err # "" THEN r
              ELSE BinaryRest(lvl, Value(IF live THEN ApplyOp(op, l.v, r.v) ELSE Undefined, r.pc),
                              toks, scopes, live)))

Unary(toks, pc, scopes, live) ==
  IF IsP(toks, pc, "!") \/ IsP(toks, pc, "-")
  THEN Then(Unary(toks, pc + 1, scopes, live), LAMBDA r :
         IF r.err # "" THEN r
         ELSE IF IsP(toks, pc, "!") THEN Value(Bool(~Truthy(r.v)), r.pc)
         ELSE Value(JsArith("-", Num(0), r.v), r.pc))
  ELSE Then(Primary(toks, pc, scopes, live), LAMBDA l : PostfixRest(l, toks, scopes, live))

PostfixRest(left, toks, scopes, live) ==
  Then(left, LAMBDA l :
    IF l.err # "" THEN l
    ELSE IF IsP(toks, l.pc, ".")
    THEN IF toks[l.pc + 1].k # "id" THEN Fail("SyntaxError", l.pc + 1)
         ELSE IF live /\ l.v.t \in {"undefined", "null"} THEN Fail("TypeError", l.pc)
         ELSE PostfixRest(Value(GetMember(l.v, toks[l.pc + 1].s), l.pc + 2), toks, scopes, live)
    ELSE IF IsP(toks, l.pc, "[")
    THEN Then(Expr(toks, l.pc + 1, scopes, live), LAMBDA r :
           IF r.err # "" THEN r
           ELSE IF ~IsP(toks, r.pc, "]") THEN Fail("SyntaxError", r.pc)
           ELSE IF live /\ l.v.t \in {"undefined", "null"} THEN Fail("TypeError", l.pc)
           ELSE PostfixRest(Value(GetMember(l.v, JsToString(r.v)), r.pc + 1), toks, scopes, live))
    ELSE l)

Primary(toks, pc, scopes, live) ==
  LET t == toks[pc]
  IN CASE t.k = "num" -> Value(Num(StrToNum(Chars(t.s))), pc + 1)
       [] t.k = "str" -> Value(StrV(StringValue(t.s)), pc + 1)
       [] t.k = "id" /\ t.s \in {"true", "false"} -> Value(Bool(t.s = "true"), pc + 1)
       [] t.k = "id" /\ t.s = "null" -> Value(Null, pc + 1)
       [] IsName(toks, pc) ->
            IF ~live THEN Value(Undefined, pc + 1)
            ELSE IF Declared(scopes, t.s) THEN Value(Lookup(scopes, t.s), pc + 1)
            ELSE Fail("ReferenceError", pc)
       [] t.k = "p" /\ t.s = "(" ->
            Then(Expr(toks, pc + 1, scopes, live), LAMBDA r :
              IF r.err # "" THEN r
              ELSE IF ~IsP(toks, r.pc, ")") THEN Fail("SyntaxError", r.pc)
              ELSE Value(r.v, r.pc + 1))
       [] OTHER -> Fail("SyntaxError", pc)

(***************************************************************************)
(* Statements.  The machine runs the body of the generated function one    *)
(* statement at a time; a frame is kept for every open block.  With        *)
(* live = FALSE the machine only parses: every block is read over once and *)
(* nothing is evaluated, as new Function does before any call.             *)
(***************************************************************************)
Frame(kind, name, arr, idx, body) ==
  [kind |-> kind, name |-> name, arr |-> arr, idx |-> idx, body |-> body]

\* the body about to be parsed (live = FALSE) or to run its first statement
\* in the call body(data) (live = TRUE)
JsStart(toks, data, live) ==
  [toks |-> toks, pc |-> 1, scopes |-> <<GlobalScope, << <<"data", data>> >> >>,
   frames |-> <<>>, status |-> "run", error |-> "", value |-> Undefined, live |-> live]

Throw(m, e) == [m EXCEPT !.status = "throw", !.error = e]
Goto(m, pc) == [m EXCEPT !.pc = pc]

\* how many `open` are unclosed after token i
Nest(toks, i, open, close) ==
  Cardinality({j \in 1..i : IsP(toks, j, open)}) - Cardinality({j \in 1..i : IsP(toks, j, close)})
\* the token that closes the `open` at p, 0 when there is none
MatchClose(toks, p, open, close) ==
  LET at == {j \in (p + 1)..Len(toks) :
               IsP(toks, j, close) /\ Nest(toks, j, open, close) = Nest(toks, p, open, close) - 1}
  IN IF at = {} THEN 0 ELSE Min(at)

Enter(m, frame, scope, pc) ==
  [m EXCEPT !.frames = Append(@, frame), !.scopes = Append(@, scope), !.pc = pc]
Leave(m, pc) ==
  [m EXCEPT !.frames = SubSeq(@, 1, Len(@) - 1), !.scopes = SubSeq(@, 1, Len(@) - 1), !.pc = pc]

\* let a = e, b = e, ... ; from the declarator at pc on
RECURSIVE DeclareList(_, _)
DeclareList(m, pc) ==
  IF ~IsName(m.toks, pc) \/ HasOwn(m.scopes[Len(m.scopes)], m.toks[pc].s)
  THEN Throw(m, "SyntaxError")
  ELSE Then(IF IsP(m.toks, pc + 1, "=") THEN Expr(m.toks, pc + 2, m.scopes, m.live)
            ELSE Value(Undefined, pc + 1), LAMBDA r :
         IF r.err # "" THEN Throw(m, r.err)
         ELSE Then([m EXCEPT !.scopes[Len(m.scopes)] = Append(@, <<m.toks[pc].s, r.v>>)], LAMBDA next :
                IF IsP(m.toks, r.pc, ",") THEN DeclareList(next, r.pc + 1)
                ELSE IF IsP(m.toks, r.pc, ";") THEN Goto(next, r.pc + 1)
                ELSE Throw(m, "SyntaxError")))

\* if (cond) { at pc; when cond is falsy, on to the else part
RECURSIVE IfStatement(_, _)
IfStatement(m, pc) ==
  IF ~IsP(m.toks, pc + 1, "(") THEN Throw(m, "SyntaxError")
  ELSE Then(Expr(m.toks, pc + 2, m.scopes, m.live), LAMBDA r :
         LET end == MatchClose(m.toks, r.pc + 1, "{", "}")
         IN IF r.err # "" THEN Throw(m, r.err)
            ELSE IF ~IsP(m.toks, r.pc, ")") \/ ~IsP(m.toks, r.pc + 1, "{") \/ end = 0
                 THEN Throw(m, "SyntaxError")
            ELSE IF ~m.live \/ Truthy(r.v)
                 THEN Enter(m, Frame("if", "", <<>>, 0, 0), <<>>, r.pc + 2)
            ELSE IF ~IsId(m.toks, end + 1, "else") THEN Goto(m, end + 1)
            ELSE IF IsId(m.toks, end + 2, "if") THEN IfStatement(m, end + 2)
            ELSE IF IsP(m.toks, end + 2, "{")
                 THEN Enter(m, Frame("if", "", <<>>, 0, 0), <<>>, end + 3)
            ELSE Throw(m, "SyntaxError"))

\* after the branch taken: the position behind the else parts that follow
RECURSIVE SkipElse(_, _)
SkipElse(toks, pc) ==
  IF ~IsId(toks, pc, "else") THEN pc
  ELSE LET paren == IF IsId(toks, pc + 1, "if") /\ IsP(toks, pc + 2, "(")
                    THEN MatchClose(toks, pc + 2, "(", ")") ELSE pc
           brace == IF paren # 0 /\ IsP(toks, paren + 1, "{")
                    THEN MatchClose(toks, paren + 1, "{", "}") ELSE 0
       IN IF brace = 0 THEN 0 ELSE SkipElse(toks, brace + 1)

\* the values for-of takes from an array or a string
Elements(v) ==
  IF v.t = "arr" THEN v.v ELSE [k \in 1..Len(v.v) |-> StrV(SubSeq(v.v, k, k))] \o <<>>
\* for (let name of iterable) { at pc
ForStatement(m, pc) ==
  IF ~(IsP(m.toks, pc + 1, "(") /\ IsId(m.toks, pc + 2, "let") /\ IsName(m.toks, pc + 3)
       /\ IsId(m.toks, pc + 4, "of"))
  THEN Throw(m, "SyntaxError")
  ELSE Then(Expr(m.toks, pc + 5, m.scopes, m.live), LAMBDA r :
         LET end == MatchClose(m.toks, r.pc + 1, "{", "}")
         IN IF r.err # "" THEN Throw(m, r.err)
            ELSE IF ~IsP(m.toks, r.pc, ")") \/ ~IsP(m.toks, r.pc + 1, "{") \/ end = 0
                 THEN Throw(m, "SyntaxError")
            ELSE IF ~m.live
                 THEN Enter(m, Frame("block", "", <<>>, 0, 0),
                            << <<m.toks[pc + 3].s, Undefined>> >>, r.pc + 2)
            ELSE IF r.v.t \notin {"arr", "str"} THEN Throw(m, "TypeError")
            ELSE IF Len(r.v.v) = 0 THEN Goto(m, end + 1)
            ELSE Enter(m, Frame("for", m.toks[pc + 3].s, Elements(r.v), 1, r.pc + 2),
                       << <<m.toks[pc + 3].s, Elements(r.v)[1]>> >>, r.pc + 2))

\* } at pc
CloseBlock(m, pc) ==
  IF m.frames = <<>> THEN Throw(m, "SyntaxError")
  ELSE LET f == m.frames[Len(m.frames)]
       IN IF f.kind = "for" /\ f.idx < Len(f.arr)
          THEN [m EXCEPT !.frames[Len(m.frames)].idx = f.idx + 1,
                         !.scopes[Len(m.scopes)] = << <<f.name, f.arr[f.idx + 1]>> >>,
                         !.pc = f.body]
          ELSE IF f.kind = "if" /\ m.live
               THEN Then(SkipElse(m.toks, pc + 1), LAMBDA behind :
                      IF behind = 0 THEN Throw(m, "SyntaxError") ELSE Leave(m, behind))
          ELSE IF f.kind = "if" /\ IsId(m.toks, pc + 1, "else")
               THEN (IF IsId(m.toks, pc + 2, "if")
                     THEN Then(Leave(m, pc + 2), LAMBDA left : IfStatement(left, pc + 2))
                     ELSE IF IsP(m.toks, pc + 2, "{")
                          THEN Enter(Leave(m, pc + 2), Frame("if", "", <<>>, 0, 0), <<>>, pc + 3)
                     ELSE Throw(m, "SyntaxError"))
          ELSE Leave(m, pc + 1)

\* the value name gets from op and the right side
Assigned(op, old, v) ==
  IF op = "=" THEN v ELSE IF op = "+=" THEN JsAdd(old, v) ELSE JsAdd(ToNumber(old), v)
\* name = e;  name += e;  name++;
Assignment(m, pc) ==
  LET name == m.toks[pc].s
      op == m.toks[pc + 1].s
  IN IF m.live /\ op # "=" /\ ~Declared(m.scopes, name) THEN Throw(m, "ReferenceError")
     ELSE Then(IF op = "++" THEN Value(Num(1), pc + 2)
               ELSE Expr(m.toks, pc + 2, m.scopes, m.live), LAMBDA r :
            IF r.err # "" THEN Throw(m, r.err)
            ELSE IF ~IsP(m.toks, r.pc, ";") THEN Throw(m, "SyntaxError")
            ELSE IF ~m.live THEN Goto(m, r.pc + 1)
            ELSE [m EXCEPT !.scopes = Assign(m.scopes, name,
                                             Assigned(op, IF op = "=" THEN Undefined
                                                          ELSE Lookup(m.scopes, name), r.v)),
                           !.pc = r.pc + 1])

\* return e;
ReturnStatement(m, pc) ==
  Then(Expr(m.toks, pc + 1, m.scopes, m.live), LAMBDA r :
    IF r.err # "" THEN Throw(m, r.err)
    ELSE IF ~IsP(m.toks, r.pc, ";") THEN Throw(m, "SyntaxError")
    ELSE IF ~m.live THEN Goto(m, r.pc + 1)
    ELSE [m EXCEPT !.status = "return", !.value = r.v, !.pc = r.pc + 1])

\* e;
ExpressionStatement(m, pc) ==
  Then(Expr(m.toks, pc, m.scopes, m.live), LAMBDA r :
    IF r.err # "" THEN Throw(m, r.err)
    ELSE IF ~IsP(m.toks, r.pc, ";") THEN Throw(m, "SyntaxError")
    ELSE Goto(m, r.pc + 1))

\* the statement at m.pc is run
JsStep(m) ==
  LET pc == m.pc
      t == m.toks[pc]
  IN CASE t.k = "eof" ->
            IF m.frames = <<>> THEN [m EXCEPT !.status = "return"] ELSE Throw(m, "SyntaxError")
       [] t.k = "bad" -> Throw(m, "SyntaxError")
       [] IsId(m.toks, pc, "let") -> DeclareList(m, pc + 1)
       [] IsId(m.toks, pc, "if") -> IfStatement(m, pc)
       [] IsId(m.toks, pc, "for") -> ForStatement(m, pc)
       [] IsId(m.toks, pc, "return") -> ReturnStatement(m, pc)
       [] IsP(m.toks, pc, "{") -> Enter(m, Frame("block", "", <<>>, 0, 0), <<>>, pc + 1)
       [] IsP(m.toks, pc, "}") -> CloseBlock(m, pc)
       [] IsP(m.toks, pc, ";") -> Goto(m, pc + 1)
       [] IsName(m.toks, pc) /\ m.toks[pc + 1].k = "p" /\ m.toks[pc + 1].s \in {"=", "+=", "++"} ->
            Assignment(m, pc)
       [] OTHER -> ExpressionStatement(m, pc)

\* the machine run to the end
RECURSIVE JsRun(_)
JsRun(machine) == Then(machine, LAMBDA m : IF m.status # "run" THEN m ELSE JsRun(JsStep(m)))

\* new Function("data", source) accepts the source
Parses(toks) == JsRun(JsStart(toks, Undefined, FALSE)).status = "return"

(***************************************************************************)
(* Engine.compile and the renderer it returns, as operators                *)
(***************************************************************************)
\* Object.assign({...attributes}, data)
RECURSIVE AssignAll(_, _)
AssignAll(target, props) ==
  IF props = <<>> THEN target
  ELSE Then(Set(target, Head(props)[1], Head(props)[2]), LAMBDA set : AssignAll(set, Tail(props)))
\* a variant: the global attributes laid over the data of the call
MergeUnder(attrs, d) == Obj(AssignAll(IF d.t = "obj" THEN d.v ELSE <<>>, attrs))
Merge(attrs, d) == Obj(AssignAll(attrs, IF d.t = "obj" THEN d.v ELSE <<>>))

\* the source compile hands to new Function
SourceText(tmpl) == Then(Rewrite(Chars(tmpl)), LAMBDA st : Then(SourceOf(st), LAMBDA src : Str(src)))

\* fn.call(null, data) for the function made from source
CallFn(source, d) ==
  Then(<<Tokenize(Chars(source)), d>>, LAMBDA a : JsRun(JsStart(a[1], a[2], TRUE)))
\* new Function("data", source) throws
Rejected(source) == Then(Tokenize(Chars(source)), LAMBDA toks : ~Parses(toks))

(***************************************************************************)
(* State                                                                   *)
(***************************************************************************)
VARIABLES
  disk,        \* the template files: path -> content, or Missing
  tmplRoot,    \* Engine.tmplRoot
  attributes,  \* Engine.attributes
  cache,       \* Engine.cache
  lastIndex,   \* Syntax.PARTIAL.lastIndex
  calls,       \* the view calls: where each stands and what it holds
  pieces,      \* the template of a render call, as the pieces it was written from
  data,        \* the data of the render call
  stage,       \* where the render call stands in compile and in the renderer
  tmpl,        \* compile's tmpl
  codes,       \* compile's codes
  source,      \* compile's source
  fn,          \* the function made by new Function, and its run
  console,     \* what compile wrote with console.error
  beans,        \* Registry.beans: the classes that have an instance
  interceptors, \* Application.interceptors
  errorRoute,   \* Application.errorRoute
  thrown,       \* the classes whose decorator threw
  running,      \* the server has been started
  requests,     \* the requests handled: where each stands and what it holds
  routes,       \* Router.routes
  sorted,       \* Router.sorted
  SESS_STORE,   \* HttpSession.SESS_STORE: the expiry of every session, by id
  now,          \* Date.now()
  uuids         \* how many ids crypto.randomUUID() has made

engineVars == <<disk, tmplRoot, attributes, cache, lastIndex, calls>>
renderVars == <<pieces, data, stage, tmpl, codes, source, fn, console>>
routerVars == <<routes, sorted>>
sessVars == <<SESS_STORE, now, uuids>>
appVars == <<beans, interceptors, errorRoute, thrown, running, requests, routerVars, sessVars>>
vars == <<disk, tmplRoot, attributes, cache, lastIndex, calls,
          pieces, data, stage, tmpl, codes, source, fn, console,
          beans, interceptors, errorRoute, thrown, running, requests,
          routes, sorted, SESS_STORE, now, uuids>>

\* a route of the application: of an interceptor (order), of the error
\* handler (template) or of a controller (path, template); params is what
\* Router.find last wrote to it
Route(name, path, order, template) ==
  [name |-> name, path |-> path, order |-> order, template |-> template, params |-> <<>>]
\* errorRoute before an error handler is registered, and the result of a
\* find that finds nothing
NoRoute == Route("", "", 0, "")
\* the application as it is made, before any decorator has run, the
\* router holding the routes rs
AppOf(rs) ==
  /\ beans = {}
  /\ interceptors = <<>>
  /\ errorRoute = NoRoute
  /\ thrown = {}
  /\ running = FALSE
  /\ requests = <<>>
  /\ routes = rs
  /\ sorted = FALSE
  /\ SESS_STORE = <<>>
  /\ now = 0
  /\ uuids = 0
NoApp == AppOf(<<>>)

(***************************************************************************)
(* A render call, one step of compile or of the renderer at a time:        *)
(* render(tmpl, data) = compile(tmpl)(data).                               *)
(***************************************************************************)
NoFn == [JsStart(<<>>, Undefined, TRUE) EXCEPT !.status = "none"]
Strs(cs) == [k \in 1..Len(cs) |-> Str(cs[k])] \o <<>>
CharSeqs(ss) == [k \in 1..Len(ss) |-> Chars(ss[k])] \o <<>>

\* one of the four replace(Syntax.X, callback) of compile
TagPass(pass(_), to) ==
  /\ \E st \in {pass([tmpl |-> Chars(tmpl), codes |-> CharSeqs(codes)])} :
       /\ tmpl' = Str(st.tmpl)
       /\ codes' = Strs(st.codes)
  /\ stage' = to
  /\ UNCHANGED <<appVars, engineVars, pieces, data, source, fn, console>>

\* one of the text functions compile calls first
TextPass(f(_), to) ==
  /\ tmpl' = Str(f(Chars(tmpl)))
  /\ stage' = to
  /\ UNCHANGED <<appVars, engineVars, pieces, data, codes, source, fn, console>>

\* tmpl = this.block(tmpl)
Block ==
  /\ stage = "block"
  /\ TextPass(block, "reduce")
\* this.reduce(tmpl)
Reduce ==
  /\ stage = "reduce"
  /\ TextPass(reduce, "escape")
\* tmpl = this.escape(...)
Escape ==
  /\ stage = "escape"
  /\ TextPass(escape, "interpolate")
\* .replace(Syntax.INTERPOLATE, ...)
Interpolate ==
  /\ stage = "interpolate"
  /\ TagPass(interpolate, "conditional")
\* .replace(Syntax.CONDITIONAL, ...)
Conditional ==
  /\ stage = "conditional"
  /\ TagPass(conditional, "iterative")
\* .replace(Syntax.ITERATIVE, ...)
Iterative ==
  /\ stage = "iterative"
  /\ TagPass(iterative, "evaluate")
\* .replace(Syntax.EVALUATE, ...)
Evaluate ==
  /\ stage = "evaluate"
  /\ TagPass(evaluate, "declare")

\* source = this.declare(codes) + "let out='" + tmpl + "';return out;"
Declare ==
  /\ stage = "declare"
  /\ source' = Str(SourceOf([tmpl |-> Chars(tmpl), codes |-> CharSeqs(codes)]))
  /\ stage' = "instantiate"
  /\ UNCHANGED <<appVars, engineVars, pieces, data, tmpl, codes, fn, console>>

\* new Function("data", source): the renderer is returned, or the source is
\* logged and the error thrown again
\* a variant: the source is first read when the renderer is called
InstantiateLate ==
  /\ stage = "instantiate"
  /\ fn' = [JsStart(Tokenize(Chars(source)), Undefined, TRUE) EXCEPT !.status = "ready"]
  /\ stage' = "call"
  /\ UNCHANGED <<appVars, engineVars, pieces, data, tmpl, codes, source, console>>
Instantiate ==
  /\ stage = "instantiate"
  /\ \E toks \in {Tokenize(Chars(source))} :
       IF Parses(toks)
       THEN /\ fn' = [JsStart(toks, Undefined, TRUE) EXCEPT !.status = "ready"]
            /\ stage' = "call"
            /\ console' = console
       ELSE /\ fn' = [NoFn EXCEPT !.status = "throw", !.error = "SyntaxError"]
            /\ stage' = "failed"
            /\ console' = Append(console, "function anonymous(data) {" \o source \o "}")
  /\ UNCHANGED <<appVars, engineVars, pieces, data, tmpl, codes, source>>

\* the renderer is called: data = Object.assign({...this.attributes}, data)
Call(Datas) ==
  /\ stage = "call"
  /\ \E d \in Datas :
       /\ data' = d
       /\ fn' = JsStart(fn.toks, Merge(attributes, d), TRUE)
  /\ stage' = "run"
  /\ UNCHANGED <<appVars, engineVars, pieces, tmpl, codes, source, console>>

\* fn.call(null, data), statement by statement
Run ==
  /\ stage = "run"
  /\ fn' = JsStep(fn)
  /\ stage' = IF fn'.status = "run" THEN "run" ELSE "done"
  /\ UNCHANGED <<appVars, engineVars, pieces, data, tmpl, codes, source, console>>

Compile ==
  \/ Block \/ Reduce \/ Escape
  \/ Interpolate \/ Conditional \/ Iterative \/ Evaluate
  \/ Declare \/ Instantiate

(***************************************************************************)
(* Templates are written from pieces: plain text and tags.  A piece keeps  *)
(* its text and what its author meant by it: the tag family, and the names *)
(* or code in the tag.                                                     *)
(***************************************************************************)
Piece(kind, text, a, b, c) == [kind |-> kind, text |-> text, a |-> a, b |-> b, c |-> c]
Text(text) == Piece("text", text, "", "", "")
Holder(text, name) == Piece("holder", text, name, "", "")
Define(text, name, body) == Piece("define", text, name, body, "")
Interp(text, code) == Piece("interpolate", text, code, "", "")
If(text, code) == Piece("if", text, code, "", "")
ElseIf(text, code) == Piece("elseif", text, code, "", "")
Else(text) == Piece("else", text, "", "", "")
EndIf(text) == Piece("endif", text, "", "", "")
For(text, arr, val, idx) == Piece("for", text, arr, val, idx)
EndFor(text) == Piece("endfor", text, "", "", "")
Eval(text, code) == Piece("evaluate", text, code, "", "")

RECURSIVE TextOf(_)
TextOf(ps) == IF Len(ps) = 0 THEN "" ELSE Head(ps).text \o TextOf(Tail(ps))

SeqsUpTo(S, n) == UNION {[1..k -> S] : k \in 0..n}

\* the engine at rest, a render call of the template ps about to compile
InitRender(ps) ==
  /\ disk = <<>>
  /\ tmplRoot = ""
  /\ attributes = <<>>
  /\ cache = <<>>
  /\ lastIndex = 0
  /\ calls = <<>>
  /\ pieces = ps
  /\ data = Undefined
  /\ stage = "block"
  /\ tmpl = TextOf(ps)
  /\ codes = <<>>
  /\ source = ""
  /\ fn = NoFn
  /\ console = <<>>
  /\ NoApp

(***************************************************************************)
(* Block resolution: templates of placeholders, definitions and text       *)
(***************************************************************************)
BlockPieces == {
  Text("x"),
  Holder("{{> a }}", "a"), Holder("{{>b}}", "b"), Holder("{{>constructor}}", "constructor"),
  Define("{{< a }}1{{< }}", "a", "1"), Define("{{<a}}2{{<}}", "a", "2"),
  Define("{{< b }}y{{<}}", "b", "y") }
MaxBlockPieces == 3

InitBlocks == \E ps \in SeqsUpTo(BlockPieces, MaxBlockPieces) : InitRender(ps)
NextBlocks == Compile \/ Call({Undefined}) \/ Run
SpecBlocks == InitBlocks /\ [][NextBlocks]_vars

\* the body of the last definition of name among the pieces, "" without one
LastBody(ps, name) ==
  LET at == {k \in 1..Len(ps) : ps[k].kind = "define" /\ ps[k].a = name}
  IN IF at = {} THEN "" ELSE ps[Max(at)].b
\* the pieces with every definition taken out and every placeholder replaced
RECURSIVE Resolved(_, _)
Resolved(ps, k) ==
  IF k > Len(ps) THEN ""
  ELSE (CASE ps[k].kind = "define" -> ""
          [] ps[k].kind = "holder" -> LastBody(ps, ps[k].a)
          [] OTHER -> ps[k].text) \o Resolved(ps, k + 1)

\* C6: when block resolution has run, the text is the template with every
\* placeholder replaced by the body of the last definition of its name (the
\* empty string when there is none) and with every definition removed.
BlocksResolved == stage = "reduce" => tmpl = Resolved(pieces, 1)

\* block resolution has run on a placeholder whose name has no definition
BlocksResolvedCase ==
  /\ stage = "reduce"
  /\ \E k \in 1..Len(pieces) : pieces[k].kind = "holder" /\ LastBody(pieces, pieces[k].a) = ""

(***************************************************************************)
(* The tag families: templates of text and one tag of every form           *)
(***************************************************************************)
TagPieces == {
  Text("x"),
  Interp("{{= a }}", " a "),
  If("{{? a }}", "a"), ElseIf("{{?? b }}", "b"), Else("{{?? }}"), EndIf("{{? }}"),
  For("{{~ l:v:i }}", "l", "v", "i"), For("{{~ l : v }}", "l", "v", ""), EndFor("{{~ }}"),
  Eval("{{ a = 1 }}", " a = 1 ") }
MaxTagPieces == 3
TagDatas == {Undefined, Obj(<< <<"a", Num(1)>>, <<"l", Arr(<<StrV("p"), StrV("q")>>)>> >>)}

InitTags == \E ps \in SeqsUpTo(TagPieces, MaxTagPieces) : InitRender(ps)
NextTags == Compile \/ Call(TagDatas) \/ Run
SpecTags == InitTags /\ [][NextTags]_vars

\* the family that translates a piece
FamilyOf(kind) ==
  CASE kind = "interpolate" -> "interpolate"
    [] kind \in {"if", "elseif", "else", "endif"} -> "conditional"
    [] kind \in {"for", "endfor"} -> "iterative"
    [] kind = "evaluate" -> "evaluate"
    [] OTHER -> "none"
\* what its own family makes of a tag, written from the tag's meaning
Own(p) ==
  CASE p.kind = "interpolate" -> "'+(" \o p.a \o ")+'"
    [] p.kind = "if" -> "';if(" \o p.a \o "){out+='"
    [] p.kind = "elseif" -> "';}else if(" \o p.a \o "){out+='"
    [] p.kind = "else" -> "';}else{out+='"
    [] p.kind = "endif" -> "';}out+='"
    [] p.kind = "for" ->
         "';if(" \o p.a \o "){" \o (IF p.c = "" THEN "" ELSE "let " \o p.c \o "=-1;")
         \o "for (let " \o p.b \o " of " \o p.a \o "){"
         \o (IF p.c = "" THEN "" ELSE p.c \o "++;") \o "out+='"
    [] p.kind = "endfor" -> "';}}out+='"
    [] p.kind = "evaluate" -> "';" \o p.a \o ";out+='"
    [] OTHER -> p.text
\* the template with the tags of the families in fs translated, the rest as written
RECURSIVE TranslatedBy(_, _)
TranslatedBy(ps, fs) ==
  IF Len(ps) = 0 THEN ""
  ELSE (IF FamilyOf(Head(ps).kind) \in fs THEN Own(Head(ps)) ELSE Head(ps).text)
       \o TranslatedBy(Tail(ps), fs)
\* the families that have rewritten the text when compile stands at a stage
FamiliesDone(at) ==
  CASE at \in {"block", "reduce", "escape", "interpolate"} -> {}
    [] at = "conditional" -> {"interpolate"}
    [] at = "iterative" -> {"interpolate", "conditional"}
    [] at = "evaluate" -> {"interpolate", "conditional", "iterative"}
    [] OTHER -> {"interpolate", "conditional", "iterative", "evaluate"}

\* C7: at every stage of compile the text is the template with the tags of
\* the families applied so far (interpolation, then conditional, then
\* iterative, then generic evaluation) each translated by its own family and
\* every other tag still as written: no tag of the first three families is
\* ever translated as a generic evaluation.
TagsByFamily == tmpl = TranslatedBy(pieces, FamiliesDone(stage))

\* the four families have run on a template with an interpolation, a
\* conditional and an iterative tag
TagsByFamilyCase ==
  /\ stage = "declare"
  /\ \A f \in {"interpolate", "conditional", "iterative"} :
       \E k \in 1..Len(pieces) : FamilyOf(pieces[k].kind) = f

(***************************************************************************)
(* Iteration: one loop {{~ l:v:i }}body{{~ }} between two texts, rendered  *)
(* with data whose field l is an array, null, undefined or absent          *)
(***************************************************************************)
LoopOpen == {For("{{~ l:v:i }}", "l", "v", "i"), For("{{~ l : v : i }}", "l", "v", "i")}
LoopBody == {Text("-"), Interp("{{= v }}", " v "), Interp("{{=i}}", "i")}
MaxLoopBody == 2
LoopElements == {StrV("p"), Num(7)}
MaxArr == 3
LoopDatas ==
  {Undefined, Obj(<<>>), Obj(<< <<"l", Null>> >>), Obj(<< <<"l", Undefined>> >>)}
  \cup {Obj(<< <<"l", Arr(es)>> >>) : es \in SeqsUpTo(LoopElements, MaxArr)}

InitLoop ==
  \E open \in LoopOpen, body \in SeqsUpTo(LoopBody, MaxLoopBody) :
    InitRender(<<Text("["), open>> \o body \o <<EndFor("{{~ }}"), Text("]")>>)
NextLoop == Compile \/ Call(LoopDatas) \/ Run
SpecLoop == InitLoop /\ [][NextLoop]_vars

\* the array the data holds in field l, <<>> when there is none
ArrayIn(d) ==
  IF d.t = "obj" /\ HasOwn(d.v, "l") /\ OwnValue(d.v, "l").t = "arr" THEN OwnValue(d.v, "l").v
  ELSE <<>>
\* one rendering of the body, v the element and i its index
RECURSIVE BodyText(_, _, _)
BodyText(body, v, i) ==
  IF Len(body) = 0 THEN ""
  ELSE (CASE Head(body).kind = "text" -> Head(body).text
          [] Head(body).a = " v " -> JsToString(v)
          [] OTHER -> NumToStr(i)) \o BodyText(Tail(body), v, i)
\* the renderings of the body for the elements from the k-th on (k from 0)
RECURSIVE Renderings(_, _, _)
Renderings(body, arr, k) ==
  IF k >= Len(arr) THEN "" ELSE BodyText(body, arr[k + 1], k) \o Renderings(body, arr, k + 1)
BodyOf(ps) == SubSeq(ps, 3, Len(ps) - 2)

\* C8: the loop renders its body once per element of the array, in element
\* order, with v the k-th element and i = k in the k-th rendering (k from 0);
\* with the array absent, undefined or null it renders the body zero times
\* and the render raises no error.
LoopRendered ==
  stage = "done" =>
    /\ fn.status = "return"
    /\ fn.value = StrV("[" \o Renderings(BodyOf(pieces), ArrayIn(data), 0) \o "]")

\* a loop whose body shows element and index has run over three elements
LoopRenderedCase ==
  /\ stage = "done"
  /\ Len(ArrayIn(data)) = MaxArr
  /\ \E k \in 1..Len(pieces) : pieces[k].a = " v "
  /\ \E k \in 1..Len(pieces) : pieces[k].a = "i"

\* the loop has run with no array in the data
LoopSkippedCase ==
  /\ stage = "done"
  /\ data.t = "obj" /\ HasOwn(data.v, "l") /\ OwnValue(data.v, "l") = Null

(***************************************************************************)
(* Conditional chains: {{? c1 }}1{{?? c2 }}2...{{?? }}E{{? }} between two  *)
(* texts, the k-th body being the digit k and the else body E              *)
(***************************************************************************)
CondNames == <<"a", "b">>
MaxBranches == 3
CondValues == {Num(0), Num(1), StrV("")}
\* the data records over the fields in names, each absent or one of the values
RECURSIVE Records(_, _)
Records(names, values) ==
  IF Len(names) = 0 THEN {<<>>}
  ELSE {r \o rest : r \in {<<>>} \cup {<< <<Head(names), v>> >> : v \in values},
                    rest \in Records(Tail(names), values)}
CondDatas == {Undefined} \cup {Obj(r) : r \in Records(CondNames, CondValues)}

Branch(k, name) ==
  <<IF k = 1 THEN If("{{? " \o name \o " }}", name) ELSE ElseIf("{{?? " \o name \o " }}", name),
    Text(NumToStr(k))>>
Chain(conds, else) ==
  <<Text("[")>> \o Flatten([k \in 1..Len(conds) |-> Branch(k, conds[k])])
  \o (IF else THEN <<Else("{{?? }}"), Text("E")>> ELSE <<>>) \o <<EndIf("{{? }}"), Text("]")>>

InitCond ==
  \E n \in 1..MaxBranches, else \in BOOLEAN :
    \E conds \in [1..n -> Range(CondNames)] : InitRender(Chain(conds, else))
NextCond == Compile \/ Call(CondDatas) \/ Run
SpecCond == InitCond /\ [][NextCond]_vars

\* Boolean(d[name]) for the data of a call
Holds(d, name) == d.t = "obj" /\ HasOwn(d.v, name) /\ Truthy(OwnValue(d.v, name))
\* the conditions of the chain, left to right
CondsOf(ps) == {k \in 1..Len(ps) : ps[k].kind \in {"if", "elseif"}}
\* the body of the branch taken: of the first condition that holds, else of
\* the else branch, else nothing
Taken(ps, d) ==
  LET held == {k \in CondsOf(ps) : Holds(d, ps[k].a)}
      else == {k \in 1..Len(ps) : ps[k].kind = "else"}
  IN IF held # {} THEN ps[Min(held) + 1].text
     ELSE IF else # {} THEN ps[Min(else) + 1].text ELSE ""

\* C9: the output of a conditional chain is the body of exactly one branch,
\* the first whose condition is truthy for the data, or the else body when
\* none is (nothing when there is no else branch), and no text of any other
\* branch.
OneBranch ==
  stage = "done" => fn.status = "return" /\ fn.value = StrV("[" \o Taken(pieces, data) \o "]")

\* a chain of three conditions and an else has run with the first condition
\* falsy and a later one truthy
OneBranchCase ==
  /\ stage = "done"
  /\ Cardinality(CondsOf(pieces)) = MaxBranches
  /\ \E k \in 1..Len(pieces) : pieces[k].kind = "else"
  /\ \E k \in CondsOf(pieces) : k > 2 /\ Holds(data, pieces[k].a) /\ ~Holds(data, pieces[2].a)

(***************************************************************************)
(* Variables: templates whose code fragments read and assign identifiers   *)
(***************************************************************************)
VarPieces == {
  Text("t"),
  Interp("{{= x }}", " x "),
  Eval("{{ y = x1 + 2 }}", " y = x1 + 2 "),
  Interp("{{= o.p }}", " o.p "),
  Interp("{{= 's' + z }}", " 's' + z "),
  Interp("{{= true }}", " true "),
  Interp("{{= $ }}", " $ "),
  Interp("{{= if$ }}", " if$ "),
  Interp("{{= valueOf }}", " valueOf ") }
MaxVarPieces == 2
VarDatas == {Undefined, Obj(<< <<"x", Num(1)>>, <<"o", Obj(<< <<"p", StrV("q")>> >>)>> >>)}

InitVars == \E ps \in SeqsUpTo(VarPieces, MaxVarPieces) : InitRender(ps)
NextVars == Compile \/ Call(VarDatas) \/ Run
SpecVars == InitVars /\ [][NextVars]_vars

\* the identifiers that stand as top-level tokens in the code of a piece:
\* not in a string, not behind a '.', not on the blacklist, not a number
TopLevelNames(p) ==
  CASE p.a = " x " -> {"x"}
    [] p.a = " y = x1 + 2 " -> {"y", "x1"}
    [] p.a = " o.p " -> {"o"}
    [] p.a = " 's' + z " -> {"z"}
    [] p.a = " $ " -> {"$"}
    [] p.a = " if$ " -> {"if$"}
    [] p.a = " valueOf " -> {"valueOf"}
    [] OTHER -> {}
\* the prologue of src declares name as an alias of data.name
DeclaredIn(src, name) ==
  \E i \in 1..(Len(src) - 2 * Len(name) - 7), before \in {" ", ","}, after \in {",", ";"} :
    SubSeq(src, i, i + 2 * Len(name) + 7) = before \o name \o "=data." \o name \o after

\* C10: every top-level identifier of the code fragments is declared in the
\* prologue as an alias of the field of the data with its name, and the
\* render ends with no missing-reference failure.
AllDeclared ==
  /\ stage \notin {"block", "reduce", "escape", "interpolate", "conditional", "iterative",
                   "evaluate", "declare"}
       => \A k \in 1..Len(pieces) : \A n \in TopLevelNames(pieces[k]) : DeclaredIn(source, n)
  /\ stage = "done" => fn.error # "ReferenceError"

(***************************************************************************)
(* Engine.view and Engine.include.  A call of view runs until it waits for *)
(* a file; every read it waits for ends in a step of its own, and the last *)
(* one to end resumes the call up to its next wait or its end.  calls      *)
(* keeps every call made to the engine, the k-th call at place k.          *)
(***************************************************************************)
\* resolve(this.tmplRoot, file): the place of a file under a root
Resolve(root, file) == <<root, file>>

PendingRead(path) == [path |-> path, state |-> "pending", text |-> ""]
\* Deno.readTextFile(path) ends: with the text of the file, or rejected
ReadTextFile(files, read) ==
  IF HasOwn(files, read.path)
  THEN [read EXCEPT !.state = "ok", !.text = OwnValue(files, read.path)]
  ELSE [read EXCEPT !.state = "failed"]

\* a call as made: of view (what = the file) or of render (what = the text)
NewCall(kind, what, d) ==
  [kind |-> kind, file |-> what, data |-> d, pc |-> "start", tmpl |-> "", reads |-> <<>>,
   result |-> Undefined, error |-> ""]
\* the call ends as the run m of the function ended
Settled(c, m) ==
  IF m.status = "return" THEN [c EXCEPT !.pc = "done", !.result = m.value]
  ELSE [c EXCEPT !.pc = "failed", !.error = m.error]
\* a cache entry: the renderer made from source by call id
Renderer(src, id) == [source |-> src, by |-> id]
\* renderer(data) for the renderer of a cache entry
Rendered(c, renderer, attrs) ==
  Then(CallFn(renderer.source, Merge(attrs, c.data)), LAMBDA m : Settled(c, m))

\* this.cache[file] when the cache does not own file: a function inherited
\* from Object.prototype, called as render(data)
InheritedCall(c) ==
  CASE c.file = "constructor" ->
         [c EXCEPT !.pc = "done", !.result = IF c.data.t = "obj" THEN c.data ELSE Obj(<<>>)]
    [] c.file = "toString" -> [c EXCEPT !.pc = "done", !.result = StrV("[object Undefined]")]
    [] OTHER -> [c EXCEPT !.pc = "failed", !.error = "TypeError"]

\* Syntax.PARTIAL.test(t) with the pattern's lastIndex at li
Test(t, li) == RegExpExec(Syntax.PARTIAL, t, li + 1).ok
\* Syntax.PARTIAL.lastIndex after test(t): the end of the match, 0 without one
testLastIndex(t, li) ==
  Then(RegExpExec(Syntax.PARTIAL, t, li + 1), LAMBDA m : IF m.ok THEN m.to - 1 ELSE 0)
\* a variant: the tags are scanned without the pattern being set back
keptLastIndex(li) == li
\* str.replace(regex, replacer) in replaceAsync, before its await: replace
\* sets a global pattern back to 0 before and after its scan
replaceLastIndex(li) == 0
\* the reads replaceAsync starts: one for every partial tag of t, in order
PartialReads(root, text) ==
  Then(text, LAMBDA t :
    Then(MatchAll(Syntax.PARTIAL, t, 1), LAMBDA ms :
      Table([k \in 1..Len(ms) |-> PendingRead(Resolve(root, Str(Group(t, ms[k], 1))))])))
\* a variant: the tags stay where they are
Unspliced(text, reads) == text
\* a variant: the texts are taken from the last read to the first
SplicedBackwards(text, reads) ==
  Then(text, LAMBDA t :
    Then(MatchAll(Syntax.PARTIAL, t, 1), LAMBDA ms :
      Splice(t, ms, [k \in 1..Len(ms) |-> Chars(reads[Len(ms) + 1 - k].text)], 1, 1)))
\* str.replace(regex, () => data.shift()): the k-th tag gives way to the k-th text
Spliced(text, reads) ==
  Then(text, LAMBDA t :
    Then(MatchAll(Syntax.PARTIAL, t, 1), LAMBDA ms :
      Splice(t, ms, [k \in 1..Len(ms) |-> Chars(reads[k].text)], 1, 1)))

\* a variant: an entry the cache holds is not replaced
CompileAndRenderOnce(c, id, t, attrs, entries) ==
  Then(SourceText(t), LAMBDA src :
    IF Rejected(src)
    THEN [call |-> [c EXCEPT !.pc = "failed", !.error = "SyntaxError", !.tmpl = t],
          cache |-> entries]
    ELSE [call |-> Rendered([c EXCEPT !.tmpl = t], Renderer(src, id), attrs),
          cache |-> IF HasOwn(entries, c.file) THEN entries
                    ELSE Set(entries, c.file, Renderer(src, id))])
\* a variant: the entry is stored before the source is instantiated
CompileAndRenderStored(c, id, t, attrs, entries) ==
  Then(SourceText(t), LAMBDA src :
    IF Rejected(src)
    THEN [call |-> [c EXCEPT !.pc = "failed", !.error = "SyntaxError", !.tmpl = t],
          cache |-> Set(entries, c.file, Renderer(src, id))]
    ELSE [call |-> Rendered([c EXCEPT !.tmpl = t], Renderer(src, id), attrs),
          cache |-> Set(entries, c.file, Renderer(src, id))])
\* render = this.cache[file] = this.compile(t); return render(data)
CompileAndRender(c, id, t, attrs, entries) ==
  Then(SourceText(t), LAMBDA src :
    IF Rejected(src)
    THEN [call |-> [c EXCEPT !.pc = "failed", !.error = "SyntaxError", !.tmpl = t],
          cache |-> entries]
    ELSE [call |-> Rendered([c EXCEPT !.tmpl = t], Renderer(src, id), attrs),
          cache |-> Set(entries, c.file, Renderer(src, id))])

\* include from the loop's test on, then view's rest when the loop is left
Resume(c, id, text, root, attrs, entries, li) ==
  Then(text, LAMBDA t :
    IF Test(Chars(t), li)
    THEN [call |-> [c EXCEPT !.pc = "partials", !.tmpl = t, !.reads = PartialReads(root, Chars(t))],
          cache |-> entries]
    ELSE CompileAndRender(c, id, t, attrs, entries))

\* init(tmplRoot)
init(root) ==
  /\ tmplRoot' = root
  /\ UNCHANGED <<disk, attributes, cache, lastIndex, calls, renderVars, appVars>>

\* import(attributes)
import(attrs) ==
  /\ attributes' = AssignAll(attributes, attrs)
  /\ UNCHANGED <<disk, tmplRoot, cache, lastIndex, calls, renderVars, appVars>>

MaxCalls == 2
\* the partial tags of a text, at most
MaxReads == 2
\* a variant: render keeps its renderers in the cache, by template text
renderCached(t, d) ==
  /\ Len(calls) < MaxCalls
  /\ \E src \in {IF HasOwn(cache, t) THEN OwnValue(cache, t).source ELSE SourceText(t)} :
       /\ calls' = Append(calls,
                     IF Rejected(src)
                     THEN [NewCall("render", t, d) EXCEPT !.pc = "failed", !.error = "SyntaxError"]
                     ELSE Rendered(NewCall("render", t, d), Renderer(src, 0), attributes))
       /\ cache' = IF Rejected(src) \/ HasOwn(cache, t) THEN cache ELSE Set(cache, t, Renderer(src, 0))
  /\ UNCHANGED <<disk, tmplRoot, attributes, lastIndex, renderVars, appVars>>
\* a variant: the renderer lays the data of the call over the global
\* attributes themselves, not over a copy
renderOverGlobals(t, d) ==
  /\ Len(calls) < MaxCalls
  /\ \E src \in {SourceText(t)} :
       calls' = Append(calls,
                  IF Rejected(src)
                  THEN [NewCall("render", t, d) EXCEPT !.pc = "failed", !.error = "SyntaxError"]
                  ELSE Rendered(NewCall("render", t, d), Renderer(src, 0), attributes))
  /\ attributes' = Merge(attributes, d).v
  /\ UNCHANGED <<disk, tmplRoot, cache, lastIndex, renderVars, appVars>>
\* render(tmpl, data): compile throws, or the renderer is called
render(t, d) ==
  /\ Len(calls) < MaxCalls
  /\ \E src \in {SourceText(t)} :
       calls' = Append(calls,
                  IF Rejected(src)
                  THEN [NewCall("render", t, d) EXCEPT !.pc = "failed", !.error = "SyntaxError"]
                  ELSE Rendered(NewCall("render", t, d), Renderer(src, 0), attributes))
  /\ UNCHANGED <<disk, tmplRoot, attributes, cache, lastIndex, renderVars, appVars>>

\* a variant: view reads the file whatever the cache holds
viewAfresh(file, d) ==
  /\ Len(calls) < MaxCalls
  /\ calls' = Append(calls,
       [NewCall("view", file, d) EXCEPT !.pc = "reading",
                                        !.reads = <<PendingRead(Resolve(tmplRoot, file))>>])
  /\ UNCHANGED <<disk, tmplRoot, attributes, cache, lastIndex, renderVars, appVars>>
\* view(file, data) up to its first wait: the cached renderer is called, or
\* the read of the file is started
view(file, d) ==
  /\ Len(calls) < MaxCalls
  /\ calls' = Append(calls,
       IF HasOwn(cache, file) THEN Rendered(NewCall("view", file, d), OwnValue(cache, file), attributes)
       ELSE IF Inherited(file) THEN InheritedCall(NewCall("view", file, d))
       ELSE [NewCall("view", file, d) EXCEPT !.pc = "reading",
                                             !.reads = <<PendingRead(Resolve(tmplRoot, file))>>])
  /\ UNCHANGED <<disk, tmplRoot, attributes, cache, lastIndex, renderVars, appVars>>

\* the k-th read that call id waits for ends.  A read that fails rejects
\* the call; the last read to end well resumes it.
ReadDone(id, k) ==
  /\ id \in 1..Len(calls)
  /\ calls[id].pc \in {"reading", "partials"}
  /\ k \in 1..Len(calls[id].reads)
  /\ calls[id].reads[k].state = "pending"
  /\ \E c \in {[calls[id] EXCEPT !.reads[k] = ReadTextFile(disk, @)]} :
       IF c.reads[k].state = "failed"
       THEN /\ calls' = [calls EXCEPT ![id] = [c EXCEPT !.pc = "failed", !.error = "NotFound"]]
            /\ UNCHANGED <<cache, lastIndex>>
       ELSE IF \E j \in 1..Len(c.reads) : c.reads[j].state = "pending"
       THEN /\ calls' = [calls EXCEPT ![id] = c]
            /\ UNCHANGED <<cache, lastIndex>>
       ELSE \E text \in {IF c.pc = "reading" THEN c.reads[1].text
                          ELSE Str(Spliced(Chars(c.tmpl), c.reads))} :
              \E next \in {Resume(c, id, text, tmplRoot, attributes, cache, lastIndex)} :
                /\ calls' = [calls EXCEPT ![id] = next.call]
                /\ cache' = next.cache
                /\ lastIndex' = IF Test(Chars(text), lastIndex)
                                THEN replaceLastIndex(testLastIndex(Chars(text), lastIndex))
                                ELSE testLastIndex(Chars(text), lastIndex)
  /\ UNCHANGED <<disk, tmplRoot, attributes, renderVars, appVars>>

\* a template file is written
WriteFile(path, text) ==
  /\ disk' = Set(disk, path, text)
  /\ UNCHANGED <<tmplRoot, attributes, cache, lastIndex, calls, renderVars, appVars>>
\* a template file is removed
RemoveFile(path) ==
  /\ HasOwn(disk, path)
  /\ disk' = SelectSeq(disk, LAMBDA f : f[1] # path)
  /\ UNCHANGED <<tmplRoot, attributes, cache, lastIndex, calls, renderVars, appVars>>

\* the pipeline of a render call, at rest
Idle ==
  /\ pieces = <<>>
  /\ data = Undefined
  /\ stage = "idle"
  /\ tmpl = ""
  /\ codes = <<>>
  /\ source = ""
  /\ fn = NoFn
  /\ console = <<>>
NoRender == Idle /\ NoApp

(***************************************************************************)
(* The engine with its callers and the template files changing under it    *)
(***************************************************************************)
Roots == {"", "v"}
ViewFiles == {"a", "b", "constructor"}
ViewDatas == <<Undefined, Obj(<< <<"v", Num(1)>> >>)>>
Imports == {<< <<"v", Num(2)>> >>}
RenderTexts == {"{{= v }}"}
\* the files as the engine is made: a includes b
Files ==
  << <<<<"", "a">>, "A{{@b}}">>, <<<<"", "b">>, "{{= v }}">>, <<<<"v", "a">>, "V">> >>
\* the files that change, and the texts written to them
Edited == {<<"", "a">>}
Rewrites == {"{{= v }}!"}

Init ==
  /\ disk = Files
  /\ tmplRoot = ""
  /\ attributes = <<>>
  /\ cache = <<>>
  /\ lastIndex = 0
  /\ calls = <<>>
  /\ NoRender

Next ==
  \/ \E root \in Roots : init(root)
  \/ \E attrs \in Imports : import(attrs)
  \/ \E t \in RenderTexts, n \in DOMAIN ViewDatas : render(t, ViewDatas[n])
  \/ \E file \in ViewFiles, n \in DOMAIN ViewDatas : view(file, ViewDatas[n])
  \/ \E id \in 1..MaxCalls, k \in 1..MaxReads : ReadDone(id, k)
  \/ \E path \in Edited, text \in Rewrites : WriteFile(path, text)
  \/ \E path \in Edited : RemoveFile(path)

Spec == Init /\ [][Next]_vars

InFlight(id) == id <= Len(calls) /\ calls[id].pc \in {"reading", "partials"}
Ended(id) == id <= Len(calls) /\ calls[id].pc \in {"done", "failed"}
\* call id is a view that has read files
Loaded(id) == id <= Len(calls) /\ calls[id].kind = "view" /\ calls[id].reads # <<>>

\* C1: a cache entry stays as it is through every step (init, import,
\* render, a change of a file, a view of another path, a read that ends),
\* but for the end of a view of its path that was in flight; and a view of
\* a path the cache holds starts no read and compiles nothing: it ends at
\* once with what the cached renderer returns.
CacheReused ==
  [][/\ \A f \in ViewFiles :
          HasOwn(cache, f) =>
            /\ HasOwn(cache', f)
            /\ OwnValue(cache', f) # OwnValue(cache, f) =>
                 \E id \in 1..Len(calls) :
                   calls[id].file = f /\ InFlight(id) /\ calls'[id].pc = "done"
     /\ (Len(calls') > Len(calls) /\ calls'[Len(calls')].kind = "view"
         /\ HasOwn(cache, calls'[Len(calls')].file)) =>
          /\ cache' = cache
          /\ calls'[Len(calls')].reads = <<>>
          /\ calls'[Len(calls')] =
               Rendered(NewCall("view", calls'[Len(calls')].file, calls'[Len(calls')].data),
                        OwnValue(cache, calls'[Len(calls')].file), attributes)]_vars

\* a view has ended on the cached renderer of a file that has since been
\* rewritten or removed
CacheReusedCase ==
  \E id \in 1..Len(calls) :
    /\ calls[id].kind = "view" /\ calls[id].pc = "done" /\ calls[id].reads = <<>>
    /\ HasOwn(cache, calls[id].file)
    /\ OwnValue(cache, calls[id].file).by # id
    /\ disk # Files

(***************************************************************************)
(* Views alone: the template files are any of the layouts and stay as      *)
(* they are; every read that was started ends                              *)
(***************************************************************************)
\* the texts a template file can hold
TextsOf(path) ==
  CASE path = <<"", "a">> -> {"{{= v }}", "{{@b}}", "A{{@b}}{{@ c }}"}
    [] path = <<"", "b">> -> {"{{= v }}", "{{@ c }}"}
    [] OTHER -> {"C", "{{@b}}"}
\* a file is missing or holds one of its texts
FileChoice(path) == {<<>>} \cup {<< <<path, t>> >> : t \in TextsOf(path)}
Layouts ==
  {a \o b \o c : a \in FileChoice(<<"", "a">>), b \in FileChoice(<<"", "b">>),
                 c \in FileChoice(<<"", "c">>)}

ViewsInit ==
  /\ disk \in Layouts
  /\ tmplRoot = ""
  /\ attributes = <<>>
  /\ cache = <<>>
  /\ lastIndex = 0
  /\ calls = <<>>
  /\ NoRender
\* a read that was started ends
Fairness == \A id \in 1..MaxCalls, k \in 1..MaxReads : WF_vars(ReadDone(id, k))

\* views of one file that includes two, begun while others are in flight
RaceInit ==
  /\ ViewsInit
  /\ HasOwn(disk, <<"", "a">>) /\ OwnValue(disk, <<"", "a">>) = "A{{@b}}{{@ c }}"
RaceNext ==
  \/ \E n \in DOMAIN ViewDatas : view("a", ViewDatas[n])
  \/ \E id \in 1..MaxCalls, k \in 1..MaxReads : ReadDone(id, k)
RaceSpec == RaceInit /\ [][RaceNext]_vars /\ Fairness

\* one view, every read it starts ending
FairNext ==
  \/ \E file \in ViewFiles, n \in DOMAIN ViewDatas : calls = <<>> /\ view(file, ViewDatas[n])
  \/ \E id \in 1..MaxCalls, k \in 1..MaxReads : ReadDone(id, k)
FairSpec == ViewsInit /\ [][FairNext]_vars /\ Fairness

\* the files the partial tags of the file at path name
Refs(files, root, path) ==
  IF ~HasOwn(files, path) THEN {}
  ELSE {r.path : r \in Range(PartialReads(root, Chars(OwnValue(files, path))))}
\* the files reached from the files in ps by partial tags, ps among them
RECURSIVE Reach(_, _, _)
Reach(files, root, ps) ==
  IF UNION {Refs(files, root, p) : p \in ps} \subseteq ps THEN ps
  ELSE Reach(files, root, ps \cup UNION {Refs(files, root, p) : p \in ps})
Includes(files, root, file) == Reach(files, root, {Resolve(root, file)})
\* a file that file includes, directly or not, includes itself
Cyclic(files, root, file) ==
  \E p \in Includes(files, root, file) : p \in Reach(files, root, Refs(files, root, p))
\* file or a file it includes, directly or not, is missing
SomeMissing(files, root, file) == \E p \in Includes(files, root, file) : ~HasOwn(files, p)

\* a view on its own: every read it starts ends before anything else happens
RECURSIVE Alone(_, _, _, _, _)
Alone(c, files, root, attrs, passes) ==
  IF c.pc \notin {"reading", "partials"} \/ passes = 0 THEN c
  ELSE Then([k \in 1..Len(c.reads) |-> ReadTextFile(files, c.reads[k])] \o <<>>, LAMBDA reads :
         IF \E k \in 1..Len(reads) : reads[k].state = "failed"
         THEN [c EXCEPT !.pc = "failed", !.error = "NotFound"]
         ELSE Then(Resume([c EXCEPT !.reads = reads], 0,
                          IF c.pc = "reading" THEN reads[1].text
                          ELSE Str(Spliced(Chars(c.tmpl), reads)),
                          root, attrs, <<>>, 0).call,
                   LAMBDA next : Alone(next, files, root, attrs, passes - 1)))
\* what view(file, d) gives with no other call about: text or error
LoneView(files, root, attrs, file, d) ==
  Then(Alone([NewCall("view", file, d) EXCEPT !.pc = "reading",
                                              !.reads = <<PendingRead(Resolve(root, file))>>],
             files, root, attrs, Len(files) + 1), LAMBDA c : <<c.pc, c.result, c.error>>)

\* C2: a view that loads and compiles ends as the same call would end alone,
\* with the text for its own data and the files as they are, whatever other
\* views were in flight with it, and leaves its renderer in the cache at its
\* path; the cache holds one entry for a path; and every such view ends
\* when the files it includes do not include themselves.
ViewsRace ==
  /\ [][\A id \in 1..Len(calls) :
          (InFlight(id) /\ calls'[id].pc \in {"done", "failed"}) =>
            /\ <<calls'[id].pc, calls'[id].result, calls'[id].error>> =
                 LoneView(disk, tmplRoot, attributes, calls[id].file, calls[id].data)
            /\ calls'[id].pc = "done" =>
                 OwnValue(cache', calls[id].file) = Renderer(SourceText(calls'[id].tmpl), id)]_vars
  /\ [](\A i, j \in 1..Len(cache) : cache[i][1] = cache[j][1] => i = j)
  /\ \A id \in 1..MaxCalls :
       (InFlight(id) /\ ~Cyclic(disk, tmplRoot, calls[id].file)) ~> Ended(id)

\* two views of one file were in flight together, both loaded and compiled,
\* and the one that began first ended last: the cache holds its renderer
ViewsRaceCase ==
  /\ Len(calls) = 2
  /\ calls[1].file = calls[2].file
  /\ calls[1].data # calls[2].data
  /\ Loaded(1) /\ Loaded(2)
  /\ calls[1].pc = "done" /\ calls[2].pc = "done"
  /\ OwnValue(cache, calls[1].file).by = 1

\* the text compile was handed holds no partial tag
NoPartial(id) == ~Test(Chars(calls[id].tmpl), 0)

\* C3: a view of a file whose inclusions do not include themselves and are
\* all there leaves the loop of include, and the text it hands to compile
\* holds no partial tag.
PartialsResolved ==
  \A id \in 1..MaxCalls :
    (/\ InFlight(id)
     /\ ~Cyclic(disk, tmplRoot, calls[id].file)
     /\ ~SomeMissing(disk, tmplRoot, calls[id].file))
      ~> (Ended(id) /\ NoPartial(id))

\* a view has ended on a text made in two rounds of inclusion
PartialsResolvedCase ==
  \E id \in 1..Len(calls) :
    /\ calls[id].pc = "done" /\ Loaded(id)
    /\ calls[id].tmpl = "ACC"

\* C4: a view of a file whose inclusions include themselves fails in the
\* end.
CycleDetected ==
  \A id \in 1..MaxCalls :
    (InFlight(id) /\ Cyclic(disk, tmplRoot, calls[id].file)) ~> (Ended(id) /\ calls[id].pc = "failed")

\* C5: a view of a file that is missing, or that includes a missing file,
\* ends failed with the error of the read and with no text.
LoadFailureFails ==
  \A id \in 1..Len(calls) :
    (calls[id].kind = "view" /\ Ended(id) /\ SomeMissing(disk, tmplRoot, calls[id].file)) =>
      /\ calls[id].pc = "failed"
      /\ calls[id].error = "NotFound"
      /\ calls[id].result = Undefined

(***************************************************************************)
(* Plain text: templates with no tag, written of letters, spaces,          *)
(* backslashes and single quotes                                           *)
(***************************************************************************)
TextChars == {"a", "n", " ", "'", "\\"}
MaxTextLen == 4
TextDatas == {Undefined, Obj(<< <<"a", Num(1)>> >>)}

InitText ==
  \E cs \in SeqsUpTo(TextChars, MaxTextLen) : InitRender([k \in 1..Len(cs) |-> Text(cs[k])] \o <<>>)
NextText == Compile \/ Call(TextDatas) \/ Run
SpecText == InitText /\ [][NextText]_vars

\* the template as written, without the white space at its ends
PlainText(ps) ==
  LET solid == {k \in 1..Len(ps) : ps[k].text # " "}
  IN IF solid = {} THEN ""
     ELSE Str([k \in 1..(Max(solid) - Min(solid) + 1) |-> ps[Min(solid) + k - 1].text])

\* C11: the render of a template with no tag returns the text of the
\* template, trimmed, character for character: every backslash and every
\* single quote of the text is in the result, once, at its place.
TextRestored ==
  stage = "done" => fn.status = "return" /\ fn.value = StrV(PlainText(pieces))

\* a text of backslashes and single quotes, a backslash before an n among
\* them, has been rendered
TextRestoredCase ==
  /\ stage = "done"
  /\ Len(pieces) = MaxTextLen
  /\ \E k \in 1..(Len(pieces) - 1) : pieces[k].text = "\\" /\ pieces[k + 1].text = "n"
  /\ \E k \in 1..Len(pieces) : pieces[k].text = "'"

(***************************************************************************)
(* The data a renderer reads                                               *)
(***************************************************************************)
\* what the body reads for a name: the field of the call's data, else the
\* global attribute as it is when the renderer is called, else undefined
ReadsAs(attrs, d, name) ==
  IF d.t = "obj" /\ HasOwn(d.v, name) THEN OwnValue(d.v, name)
  ELSE IF HasOwn(attrs, name) THEN OwnValue(attrs, name)
  ELSE Undefined
\* the texts the templates of Spec give when v reads as value: v shown
\* after nothing or A and before nothing or !, or the text V that shows no v
Shows(value) ==
  {StrV(p \o JsToString(value) \o s) : p \in {"", "A"}, s \in {"", "!"}} \cup {StrV("V")}
\* in this step a renderer was called for call id and returned
RendererCalled(id) ==
  /\ id \in 1..Len(calls')
  /\ calls'[id].pc = "done"
  /\ id > Len(calls) \/ calls[id].pc # "done"
  /\ calls'[id].kind = "render" \/ HasOwn(cache', calls'[id].file)

\* C12: whenever a renderer is called (by render, by a view that has loaded
\* its file, by a view of a cached file), what it shows for v is the field
\* v of the call's data when the data has one, else the global attribute v
\* as imported by then, also when the import came after the renderer was
\* compiled and cached, else undefined.
DataOverlaid ==
  [][\A id \in 1..MaxCalls :
       RendererCalled(id) =>
         calls'[id].result \in Shows(ReadsAs(attributes, calls'[id].data, "v"))]_vars

\* a view compiled and cached a renderer while v was no global and showed
\* undefined; v was imported; a later view of the cached file shows it
DataOverlaidCase ==
  /\ Len(calls) = 2
  /\ calls[1].kind = "view" /\ calls[1].result = StrV("Aundefined")
  /\ calls[2].kind = "view" /\ calls[2].reads = <<>> /\ calls[2].data = Undefined
  /\ calls[2].result = StrV("A2")
  /\ HasOwn(cache, "a") /\ OwnValue(cache, "a").by = 1

(***************************************************************************)
(* Globals: templates that read v and templates that assign to v, rendered *)
(* and viewed between imports                                              *)
(***************************************************************************)
Assigning == "{{ v = 5 }}{{= v }}"
GlobalTexts == {"{{= v }}", Assigning}
GlobalFiles == << <<<<"", "a">>, Assigning>> >>
GlobalImports == {<< <<"v", Num(2)>> >>, << <<"w", Num(3)>> >>}

InitGlobals ==
  /\ disk = GlobalFiles
  /\ tmplRoot = ""
  /\ attributes = <<>>
  /\ cache = <<>>
  /\ lastIndex = 0
  /\ calls = <<>>
  /\ NoRender
NextGlobals ==
  \/ \E attrs \in GlobalImports : import(attrs)
  \/ \E t \in GlobalTexts, n \in DOMAIN ViewDatas : render(t, ViewDatas[n])
  \/ \E n \in DOMAIN ViewDatas : view("a", ViewDatas[n])
  \/ \E id \in 1..MaxCalls, k \in 1..MaxReads : ReadDone(id, k)
SpecGlobals == InitGlobals /\ [][NextGlobals]_vars

\* the template call id rendered assigns to v
Assigns(id) == calls'[id].kind = "view" \/ calls'[id].file = Assigning

\* C13: the global attributes change in no step but an import, which adds
\* or replaces the imported fields and does nothing else; a renderer whose
\* template assigns 5 to v shows 5, and a renderer called after it still
\* reads v as the field of its own data or else as the global imported,
\* never as the 5 assigned.
GlobalsKept ==
  [][/\ attributes' # attributes =>
          /\ \E attrs \in GlobalImports : attributes' = AssignAll(attributes, attrs)
          /\ calls' = calls /\ cache' = cache
     /\ \A id \in 1..MaxCalls :
          RendererCalled(id) =>
            calls'[id].result =
              IF Assigns(id) THEN StrV("5")
              ELSE StrV(JsToString(ReadsAs(attributes, calls'[id].data, "v")))]_vars

\* v was imported, a renderer assigned to v and showed 5, and a renderer
\* called after it with no data shows the global as imported
GlobalsKeptCase ==
  /\ Len(calls) = 2
  /\ calls[1].file = Assigning /\ calls[1].result = StrV("5")
  /\ calls[2].file = "{{= v }}" /\ calls[2].data = Undefined /\ calls[2].result = StrV("2")
  /\ HasOwn(attributes, "v") /\ OwnValue(attributes, "v") = Num(2)

(***************************************************************************)
(* Renders beside views: the texts rendered are a template and the name of *)
(* a file that is viewed                                                   *)
(***************************************************************************)
BesideTexts == {"{{= v }}", "a"}
BesideFiles == {"a", "b"}

NextBeside ==
  \/ \E t \in BesideTexts, n \in DOMAIN ViewDatas : render(t, ViewDatas[n])
  \/ \E file \in BesideFiles, n \in DOMAIN ViewDatas : view(file, ViewDatas[n])
  \/ \E id \in 1..MaxCalls, k \in 1..MaxReads : ReadDone(id, k)
SpecBeside == Init /\ [][NextBeside]_vars

\* what render(text, d) gives for the texts rendered
RenderOf(text, d) ==
  IF text = "a" THEN StrV("a") ELSE StrV(JsToString(ReadsAs(<<>>, d, "v")))

\* C14: a call of render leaves the cache as it is and ends at once with
\* the text its own template gives, whatever the cache holds, also when
\* the template text is the name of a cached file; the cache changes only
\* when a view that loaded its file ends, and every entry it holds is at
\* the path of a view and was made by that view.
RenderBesideCache ==
  /\ [][/\ (Len(calls') > Len(calls) /\ calls'[Len(calls')].kind = "render") =>
             /\ cache' = cache
             /\ calls'[Len(calls')].pc = "done"
             /\ calls'[Len(calls')].result =
                  RenderOf(calls'[Len(calls')].file, calls'[Len(calls')].data)
        /\ cache' # cache =>
             \E id \in 1..Len(calls) :
               /\ calls[id].kind = "view" /\ InFlight(id) /\ calls'[id].pc = "done"
               /\ cache' = Set(cache, calls[id].file, Renderer(SourceText(calls'[id].tmpl), id))]_vars
  /\ [](\A i \in 1..Len(cache) :
          \E id \in 1..Len(calls) :
            /\ calls[id].kind = "view" /\ calls[id].file = cache[i][1] /\ calls[id].pc = "done"
            /\ cache[i][2].by = id)

\* the text "a" has been rendered while the cache held the renderer of the
\* file a
RenderBesideCacheCase ==
  /\ Len(calls) = 2
  /\ calls[1].kind = "view" /\ calls[1].file = "a" /\ calls[1].pc = "done"
  /\ HasOwn(cache, "a")
  /\ calls[2].kind = "render" /\ calls[2].file = "a" /\ calls[2].result = StrV("a")

(***************************************************************************)
(* Tags that open and close blocks, in any order: the braces of the source *)
(* they generate need not pair                                             *)
(***************************************************************************)
BracePieces == {
  If("{{? a }}", "a"), Else("{{?? }}"), EndIf("{{? }}"),
  For("{{~ r:x }}", "r", "x", ""), EndFor("{{~ }}"), Text("n")}
MaxBracePieces == 3
BraceDatas == {Undefined, Obj(<< <<"a", Num(1)>>, <<"r", Arr(<<Num(7)>>)>> >>)}

InitBraces == \E ps \in SeqsUpTo(BracePieces, MaxBracePieces) : InitRender(ps)
NextBraces == Compile \/ Call(BraceDatas) \/ Run
SpecBraces == InitBraces /\ [][NextBraces]_vars

\* how many blocks are open after the first i characters of src
OpenAfter(src, i) ==
  Cardinality({j \in 1..i : src[j] = "{"}) - Cardinality({j \in 1..i : src[j] = "}"})
\* a brace closes a block that is not open, or a block is left open
Unbalanced(text) ==
  \E src \in {Chars(text)} :
    \/ \E i \in 1..Len(src) : OpenAfter(src, i) < 0
    \/ OpenAfter(src, Len(src)) # 0
Past(st) == st \in {"call", "run", "done", "failed"}

\* C15: when the braces of the generated source do not pair, new Function
\* fails in compile: the source is written to the console as a whole, the
\* SyntaxError is thrown and no renderer is made, so that no such template
\* is ever called or run; and the console is written only for a source that
\* new Function refused.
UnbalancedFailsInCompile ==
  /\ Past(stage) /\ Unbalanced(source) =>
       /\ stage = "failed"
       /\ fn.status = "throw" /\ fn.error = "SyntaxError"
       /\ console = <<"function anonymous(data) {" \o source \o "}">>
  /\ stage # "failed" => console = <<>>

\* compile has failed on a template whose conditional is never closed
UnbalancedFailsInCompileCase ==
  /\ stage = "failed"
  /\ Unbalanced(source)
  /\ \E k \in 1..Len(pieces) : pieces[k].kind = "if"
  /\ \A k \in 1..Len(pieces) : pieces[k].kind # "endif"
  /\ console # <<>>

(***************************************************************************)
(* Tags of the four families whose code holds a quoted string              *)
(***************************************************************************)
QuotedTemplates == {
  <<>>,
  <<Interp("{{= 'k' }}", " 'k' ")>>,
  <<If("{{? 'k' }}", "'k'"), Text("n"), EndIf("{{? }}")>>,
  <<For("{{~ 'k':x }}", "'k'", "x", ""), Text("n"), EndFor("{{~ }}")>>,
  <<Eval("{{ 'k' }}", " 'k' ")>>}
QuotedDatas == {Undefined, Obj(<<>>)}

InitQuoted == \E a \in QuotedTemplates, b \in QuotedTemplates : InitRender(a \o b)
NextQuoted == Compile \/ Call(QuotedDatas) \/ Run
SpecQuoted == InitQuoted /\ [][NextQuoted]_vars

\* the text holds a quote that escape has put a backslash before
StillEscaped(text) == \E cs \in {Chars(text)} : \E i \in 1..(Len(cs) - 1) : cs[i] = "\\" /\ cs[i + 1] = "'"

\* C19: once the four families have run, no fragment in codes and no place
\* of the generated source holds a quote still escaped with a backslash
\* (the templates hold no backslash and no quote outside their tags).
FragmentsUnescaped ==
  stage \in {"declare", "instantiate", "call", "run", "done", "failed"} =>
    /\ \A k \in 1..Len(codes) : ~StillEscaped(codes[k])
    /\ ~StillEscaped(source)

(***************************************************************************)
(* An interpolation whose code is written from backslashes, quotes and a   *)
(* name                                                                    *)
(***************************************************************************)
FragmentChars == {"\\", "'", "a"}
MaxFragment == 3
Fragments == {Str(c) : c \in SeqsUpTo(FragmentChars, MaxFragment) \ {<<>>}}
FragmentDatas == {Undefined, Obj(<< <<"a", Num(1)>> >>)}

InitFragment == \E c \in Fragments : InitRender(<<Interp("{{=" \o c \o "}}", c)>>)
NextFragment == Compile \/ Call(FragmentDatas) \/ Run
SpecFragment == InitFragment /\ [][NextFragment]_vars

\* C20: the code emitted for an interpolation is the code as it was written
\* in the tag, every backslash and every quote of it kept as it is: after
\* the interpolation pass the text is '+(c)+' and codes holds c alone.
EmittedAsWritten ==
  stage \in {"conditional", "iterative", "evaluate", "declare"} =>
    /\ tmpl = "'+(" \o pieces[1].a \o ")+'"
    /\ codes = <<pieces[1].a>>

(***************************************************************************)
(* The application: the decorators register the middleware, handleRequest  *)
(* runs the interceptors, the route handler and the error handler          *)
(***************************************************************************)
STATUS_CODE == [NotFound |-> 404, InternalServerError |-> 500, Unauthorized |-> 401, Forbidden |-> 403]

\* new HttpError(status, message)
HttpError(status, message) == [kind |-> "HttpError", status |-> status, message |-> message]
\* a handler that returns
NoError == [kind |-> "", status |-> 0, message |-> ""]
\* what a handler throws: an HttpError, or an Error with or without a
\* status and with or without a message (status 0: no status)
Thrown == {
  HttpError(STATUS_CODE.Unauthorized, "Unauthorized"),
  [kind |-> "Error", status |-> 0, message |-> "boom"],
  [kind |-> "Error", status |-> STATUS_CODE.Forbidden, message |-> "Forbidden"],
  [kind |-> "Error", status |-> STATUS_CODE.Forbidden, message |-> ""]}
Outcomes == {NoError} \cup Thrown

buildHttpError(err) ==
  IF err.kind = "HttpError" THEN err
  ELSE IF err.status # 0 /\ err.message # "" THEN HttpError(err.status, err.message)
  ELSE HttpError(STATUS_CODE.InternalServerError, err.message)

\* the metadata the method decorators define
Metadata(name, descriptor, isErrorRoute, order, template) ==
  [name |-> name, descriptor |-> descriptor, isErrorRoute |-> isErrorRoute,
   order |-> order, template |-> template]
Template(name, path) == Metadata(name, FALSE, FALSE, 0, path)
Interceptor(name, order) == Metadata(name, TRUE, FALSE, order, "")
ErrorHandler(name, template) == Metadata(name, TRUE, TRUE, 0, template)

\* the middleware classes of the program, each with its decorated methods
\* in the order they are written
Classes == [
  A |-> <<Interceptor("a2", 2), Interceptor("a1", 1)>>,
  B |-> <<Interceptor("b0", 0), ErrorHandler("e1", "error.html")>>,
  C |-> <<Template("t", "t.html"), Interceptor("c1", 1), ErrorHandler("e2", ""), ErrorHandler("e3", "")>>]

\* a variant: the error handler registered last is the one that stands
RECURSIVE AddRoutesLast(_, _)
AddRoutesLast(methods, app) ==
  IF methods = <<>> THEN app
  ELSE LET metadata == Head(methods)
           route == Route(metadata.name, "", metadata.order, metadata.template)
       IN IF ~metadata.descriptor THEN AddRoutesLast(Tail(methods), app)
          ELSE IF metadata.isErrorRoute
          THEN AddRoutesLast(Tail(methods), [app EXCEPT !.errorRoute = route])
          ELSE AddRoutesLast(Tail(methods), [app EXCEPT !.interceptors = Append(@, route)])
\* the loop of Middleware over the metadata of the class
RECURSIVE AddRoutes(_, _)
AddRoutes(methods, app) ==
  IF methods = <<>> THEN app
  ELSE LET metadata == Head(methods)
           route == Route(metadata.name, "", metadata.order, metadata.template)
       IN IF ~metadata.descriptor THEN AddRoutes(Tail(methods), app)
          ELSE IF metadata.isErrorRoute /\ app.errorRoute # NoRoute
          THEN [app EXCEPT !.thrown = TRUE]
          ELSE IF metadata.isErrorRoute
          THEN AddRoutes(Tail(methods), [app EXCEPT !.errorRoute = route])
          ELSE AddRoutes(Tail(methods), [app EXCEPT !.interceptors = Append(@, route)])

\* @Middleware on the class target
Middleware(target) ==
  /\ target \notin beans
  /\ beans' = beans \cup {target}
  /\ \E app \in {AddRoutes(Classes[target], [interceptors |-> interceptors,
                                             errorRoute |-> errorRoute,
                                             thrown |-> FALSE])} :
       /\ interceptors' = app.interceptors
       /\ errorRoute' = app.errorRoute
       /\ thrown' = IF app.thrown THEN thrown \cup {target} ELSE thrown
  /\ UNCHANGED <<engineVars, renderVars, running, requests, routerVars, sessVars>>

\* Array.prototype.sort((a, b) => a.order - b.order): routes of one order
\* keep their places
RECURSIVE SortByOrder(_)
SortByOrder(list) ==
  IF list = <<>> THEN <<>>
  ELSE LET last == list[Len(list)]
           rest == SortByOrder(SubSeq(list, 1, Len(list) - 1))
       IN SelectSeq(rest, LAMBDA r : r.order <= last.order) \o <<last>>
          \o SelectSeq(rest, LAMBDA r : r.order > last.order)

\* @Cross on the main class, whose constructor starts the server
Cross ==
  /\ running' = TRUE
  /\ interceptors' = SortByOrder(interceptors)
  /\ UNCHANGED <<engineVars, renderVars, beans, errorRoute, thrown, requests, routerVars, sessVars>>

\* the routes the controllers have added
Routes == <<Route("page", "/t", 0, "t.html"), Route("json", "/j", 0, "")>>
Paths == {"/t", "/j", "/x"}

(***************************************************************************)
(* Router.  The paths of the model are made of '/', word characters, '*'   *)
(* and ':name'; none brings a pattern of its own, and every request and    *)
(* every route is of one method.                                           *)
(***************************************************************************)
SORT_RULE == <<"", "*", ":">>
\* /\/\*($|\/)/g and /:(\w+)(\(\S+\))?/g
RoutePattern == [
  WILDCARD |-> <<Lit("/"), Lit("*")>> \o Cap(1, <<Alt(<< <<Eos>>, <<Lit("/")>> >>)>>),
  PARAM |-> <<Lit(":")>> \o Cap(1, Plus(<<In(Word)>>))
            \o <<Opt(Cap(2, <<Lit("(")>> \o Plus(<<NotIn(Space)>>) \o <<Lit(")")>>))>> ]
\* parse(pattern): the pattern of a path, as its nodes and the names of its
\* groups; "/*" at the end or before "/" is /(?<wildcard>.*), ":k" is
\* (?<k>([^/]+?)), and the whole stands between ^ and $
parse(path) ==
  Then(Chars(path), LAMBDA cs :
    Then(<<MatchAll(RoutePattern.WILDCARD, cs, 1), MatchAll(RoutePattern.PARAM, cs, 1)>>, LAMBDA ms :
      LET starts == {ms[1][k].from : k \in 1..Len(ms[1])} \cup {ms[2][k].from : k \in 1..Len(ms[2])}
          group(i) == Cardinality({j \in starts : j <= i})
          inside(i) == \/ \E k \in 1..Len(ms[1]) : i = ms[1][k].from + 1
                       \/ \E k \in 1..Len(ms[2]) : i > ms[2][k].from /\ i < ms[2][k].to
          wild(i) == \E k \in 1..Len(ms[1]) : i = ms[1][k].from
          named(i) == \E k \in 1..Len(ms[2]) : i = ms[2][k].from
          name(i) == LET m == ms[2][CHOOSE k \in 1..Len(ms[2]) : i = ms[2][k].from]
                     IN Str(Group(cs, m, 1))
      IN [nodes |-> <<Bos>> \o Flatten([i \in 1..Len(cs) |->
                      IF wild(i) THEN <<Lit("/")>> \o Cap(group(i), <<Star(<<Dot>>)>>)
                      ELSE IF named(i) THEN Cap(group(i), LazyPlus(<<NotIn({"/"})>>))
                      ELSE IF inside(i) THEN <<>>
                      ELSE <<Lit(cs[i])>>]) \o <<Eos>>,
          names |-> Table([g \in 1..Cardinality(starts) |->
                      LET i == CHOOSE j \in starts : group(j) = g
                      IN IF wild(i) THEN "wildcard" ELSE name(i)])]))
\* route.pattern.exec(url) and the params made of its groups; FALSE for no match
exec(path, url) ==
  Then(parse(path), LAMBDA pattern :
    Then(RegExpExec(pattern.nodes, Chars(url), 1), LAMBDA m :
      [ok |-> m.ok,
       params |-> IF m.ok THEN [g \in 1..Len(pattern.names) |->
                                  <<pattern.names[g], Str(Group(Chars(url), m, g))>>] \o <<>>
                  ELSE <<>>]))

\* a.path.charAt(i), and this.SORT_RULE.findIndex((v) => v == char)
charAt(path, i) == IF i < Len(path) THEN SubSeq(path, i + 1, i + 1) ELSE ""
findIndex(char) ==
  IF \E k \in 1..Len(SORT_RULE) : SORT_RULE[k] = char
  THEN Min({k \in 1..Len(SORT_RULE) : SORT_RULE[k] = char}) - 1
  ELSE 0 - 1
\* the compare function of sortRoutes
compare(a, b) ==
  LET maxLen == IF Len(a.path) > Len(b.path) THEN Len(a.path) ELSE Len(b.path)
      apart == {i \in 0..(maxLen - 1) : charAt(a.path, i) # charAt(b.path, i)}
  IN IF apart = {} THEN 0
     ELSE findIndex(charAt(a.path, Min(apart))) - findIndex(charAt(b.path, Min(apart)))
\* this.routes.sort(compare): routes that compare equal keep their places
RECURSIVE sortRoutes(_)
sortRoutes(list) ==
  IF list = <<>> THEN <<>>
  ELSE LET last == list[Len(list)]
           rest == sortRoutes(SubSeq(list, 1, Len(list) - 1))
       IN SelectSeq(rest, LAMBDA r : compare(r, last) <= 0) \o <<last>>
          \o SelectSeq(rest, LAMBDA r : compare(r, last) > 0)
\* find(method, url): the routes as find leaves them and the route it
\* returns, NoRoute for undefined
find(list, isSorted, url) ==
  Then(IF isSorted THEN list ELSE sortRoutes(list), LAMBDA rs :
    LET hits == {k \in 1..Len(rs) : exec(rs[k].path, url).ok}
    IN IF hits = {} THEN [routes |-> rs, route |-> NoRoute]
       ELSE Then([rs[Min(hits)] EXCEPT !.params = exec(rs[Min(hits)].path, url).params], LAMBDA route :
              [routes |-> [rs EXCEPT ![Min(hits)] = route], route |-> route]))
\* the route named name as the router holds it now
Held(list, name) == list[CHOOSE k \in 1..Len(list) : list[k].name = name]

MaxRequests == 2
NewRequest(pathname) ==
  [path |-> pathname, route |-> NoRoute, pc |-> "find", idx |-> 0, cur |-> NoRoute,
   ran |-> <<>>, contentType |-> "", status |-> 200, body |-> "", params |-> <<>>]
\* a handler has been called: whose, and what it threw
Ran(who, route, e) == [who |-> who, name |-> route.name, order |-> route.order, threw |-> e]

\* the catch block of handleRequest up to its first await
Caught(q, e, handler) ==
  LET err == buildHttpError(e)
  IN IF handler # NoRoute THEN [q EXCEPT !.status = err.status, !.pc = "errorHandler"]
     ELSE [q EXCEPT !.status = err.status, !.body = "json", !.pc = "done"]
\* the for loop over this.interceptors takes its i-th element, or is left
\* with the arguments of the route handler injected: request.params is
\* what the route holds as params at that time
Advance(q, i, list, held) ==
  IF i <= Len(list)
  THEN [q EXCEPT !.pc = "interceptor", !.idx = i, !.cur = list[i], !.params = list[i].params]
  ELSE [q EXCEPT !.pc = "handler", !.idx = i, !.params = Held(held, q.route.name).params]

\* handleRequest(ctx) up to its first await
handleRequest(pathname) ==
  /\ running
  /\ Len(requests) < MaxRequests
  /\ \E q \in {NewRequest(pathname)}, found \in {find(routes, sorted, pathname)} :
       /\ routes' = found.routes
       /\ sorted' = TRUE
       /\ requests' = Append(requests,
            IF found.route = NoRoute
            THEN Caught(q, HttpError(STATUS_CODE.NotFound, "Route not found: " \o pathname), errorRoute)
            ELSE Advance([q EXCEPT !.route = found.route,
                                   !.contentType = IF found.route.template # ""
                                                   THEN "text/html; charset=utf-8" ELSE ""],
                         1, interceptors, found.routes))
  /\ UNCHANGED <<engineVars, renderVars, beans, interceptors, errorRoute, thrown, running, sessVars>>

\* a variant: what an interceptor throws is dropped and the loop goes on
InterceptOn(r, e) ==
  /\ r \in 1..Len(requests)
  /\ requests[r].pc = "interceptor"
  /\ \E q \in {[requests[r] EXCEPT !.ran = Append(@, Ran("interceptor", requests[r].cur, e))]} :
       requests' = [requests EXCEPT ![r] = Advance(q, q.idx + 1, interceptors, routes)]
  /\ UNCHANGED <<engineVars, renderVars, beans, interceptors, errorRoute, thrown, running, routerVars, sessVars>>
\* await interceptor.handler(...args): it returns or throws e
Intercept(r, e) ==
  /\ r \in 1..Len(requests)
  /\ requests[r].pc = "interceptor"
  /\ \E q \in {[requests[r] EXCEPT !.ran = Append(@, Ran("interceptor", requests[r].cur, e))]} :
       requests' = [requests EXCEPT ![r] = IF e = NoError THEN Advance(q, q.idx + 1, interceptors, routes)
                                           ELSE Caught(q, e, errorRoute)]
  /\ UNCHANGED <<engineVars, renderVars, beans, interceptors, errorRoute, thrown, running, routerVars, sessVars>>

\* response.body = await route.handler(...args)
Handle(r, e) ==
  /\ r \in 1..Len(requests)
  /\ requests[r].pc = "handler"
  /\ \E q \in {[requests[r] EXCEPT !.ran = Append(@, Ran("handler", requests[r].route, e))]} :
       requests' = [requests EXCEPT ![r] =
         IF e # NoError THEN Caught(q, e, errorRoute)
         ELSE IF q.route.template # "" THEN [q EXCEPT !.body = "data", !.pc = "view"]
         ELSE [q EXCEPT !.body = "data", !.pc = "done"]]
  /\ UNCHANGED <<engineVars, renderVars, beans, interceptors, errorRoute, thrown, running, routerVars, sessVars>>

\* response.body = await this.engine.view(route.template, response.body)
View(r, e) ==
  /\ r \in 1..Len(requests)
  /\ requests[r].pc = "view"
  /\ \E q \in {[requests[r] EXCEPT !.ran = Append(@, Ran("view", requests[r].route, e))]} :
       requests' = [requests EXCEPT ![r] =
         IF e # NoError THEN Caught(q, e, errorRoute)
         ELSE [q EXCEPT !.body = "html", !.pc = "done"]]
  /\ UNCHANGED <<engineVars, renderVars, beans, interceptors, errorRoute, thrown, running, routerVars, sessVars>>

\* response.body = await this.errorRoute.handler(...args); what it throws
\* rejects handleRequest
ErrorHandle(r, e) ==
  /\ r \in 1..Len(requests)
  /\ requests[r].pc = "errorHandler"
  /\ \E q \in {[requests[r] EXCEPT !.ran = Append(@, Ran("error", errorRoute, e))]} :
       requests' = [requests EXCEPT ![r] =
         IF e # NoError THEN [q EXCEPT !.pc = "rejected"]
         ELSE IF errorRoute.template # "" /\ q.contentType # ""
         THEN [q EXCEPT !.body = "error", !.pc = "errorView"]
         ELSE [q EXCEPT !.body = "error", !.pc = "done"]]
  /\ UNCHANGED <<engineVars, renderVars, beans, interceptors, errorRoute, thrown, running, routerVars, sessVars>>

\* response.body = await this.engine.view(this.errorRoute.template, response.body)
ErrorView(r, e) ==
  /\ r \in 1..Len(requests)
  /\ requests[r].pc = "errorView"
  /\ \E q \in {[requests[r] EXCEPT !.ran = Append(@, Ran("errorView", errorRoute, e))]} :
       requests' = [requests EXCEPT ![r] =
         IF e # NoError THEN [q EXCEPT !.pc = "rejected"]
         ELSE [q EXCEPT !.body = "html", !.pc = "done"]]
  /\ UNCHANGED <<engineVars, renderVars, beans, interceptors, errorRoute, thrown, running, routerVars, sessVars>>

InitApp ==
  /\ disk = <<>>
  /\ tmplRoot = ""
  /\ attributes = <<>>
  /\ cache = <<>>
  /\ lastIndex = 0
  /\ calls = <<>>
  /\ Idle
  /\ AppOf(Routes)
NextApp ==
  \/ \E target \in DOMAIN Classes : Middleware(target)
  \/ Cross
  \/ \E pathname \in Paths : requests = <<>> /\ handleRequest(pathname)
  \/ \E r \in 1..MaxRequests, e \in Outcomes :
       \/ Intercept(r, e)
       \/ Handle(r, e)
       \/ View(r, e)
       \/ ErrorHandle(r, e)
       \/ ErrorView(r, e)
SpecApp == InitApp /\ [][NextApp]_vars

\* the interceptors a request has run, in the order they ran
Intercepted(q) == SelectSeq(q.ran, LAMBDA x : x.who = "interceptor")
\* the place in ran of the first handler that threw, 0 when none did
FirstThrow(q) ==
  IF \E k \in 1..Len(q.ran) : q.ran[k].threw # NoError
  THEN Min({k \in 1..Len(q.ran) : q.ran[k].threw # NoError})
  ELSE 0

\* C16: the interceptors a request runs run in non-decreasing order of
\* their order values, whatever the order they were registered in, and
\* none runs after the route handler.
InterceptorsInOrder ==
  \A r \in 1..Len(requests) :
    LET q == requests[r]
        is == Intercepted(q)
    IN /\ \A i, j \in 1..Len(is) : i < j => is[i].order <= is[j].order
       /\ \A i, j \in 1..Len(q.ran) : q.ran[i].who = "handler" /\ i < j => q.ran[j].who # "interceptor"

\* C17 as amended: once an interceptor has thrown, the request calls no
\* other interceptor, not the route handler and not the view of the route
\* (only the error handler and its view), and its status is the status of
\* what was thrown when that is an HttpError or has both a status and a
\* message, and 500 otherwise.
InterceptorThrowStops ==
  \A r \in 1..Len(requests) :
    LET q == requests[r]
        at == FirstThrow(q)
    IN at # 0 /\ q.ran[at].who = "interceptor" =>
         /\ \A k \in (at + 1)..Len(q.ran) : q.ran[k].who \in {"error", "errorView"}
         /\ q.pc \in {"errorHandler", "errorView", "done", "rejected"}
         /\ q.status = IF \/ q.ran[at].threw.kind = "HttpError"
                          \/ q.ran[at].threw.status # 0 /\ q.ran[at].threw.message # ""
                       THEN q.ran[at].threw.status
                       ELSE STATUS_CODE.InternalServerError

\* C17: once an interceptor has thrown, the request calls no other
\* interceptor, not the route handler and not the view of the route, and
\* its status is the status what was thrown carries, 500 when it carries
\* none.
InterceptorThrowStatus ==
  \A r \in 1..Len(requests) :
    LET q == requests[r]
        at == FirstThrow(q)
    IN at # 0 /\ q.ran[at].who = "interceptor" =>
         /\ \A k \in (at + 1)..Len(q.ran) : q.ran[k].who \in {"error", "errorView"}
         /\ q.pc \in {"errorHandler", "errorView", "done", "rejected"}
         /\ q.status = IF q.ran[at].threw.status # 0 THEN q.ran[at].threw.status
                       ELSE STATUS_CODE.InternalServerError

\* the second of three interceptors has thrown an HttpError on a route with
\* a template, and the error handler has answered
InterceptorThrowStopsCase ==
  /\ Len(interceptors) >= 3
  /\ \E r \in 1..Len(requests) :
       /\ requests[r].pc = "done"
       /\ requests[r].route.template # ""
       /\ FirstThrow(requests[r]) = 2
       /\ requests[r].ran[2].who = "interceptor"
       /\ requests[r].ran[2].threw.kind = "HttpError"
       /\ requests[r].status = STATUS_CODE.Unauthorized
       /\ Len(requests[r].ran) > 2

\* the error handler methods of a class, in the order they are written
ErrorHandlers(target) == SelectSeq(Classes[target], LAMBDA m : m.descriptor /\ m.isErrorRoute)

\* C18: an error route that is registered stays as it is; @Middleware on a
\* class registers the first error handler of the class when no error route
\* is registered, and throws exactly when the class holds an error handler
\* beyond the one error route of the application.
OneErrorRoute ==
  [][/\ errorRoute # NoRoute => errorRoute' = errorRoute
     /\ \A target \in DOMAIN Classes :
          target \notin beans /\ target \in beans' =>
            /\ errorRoute' = IF errorRoute # NoRoute \/ ErrorHandlers(target) = <<>> THEN errorRoute
                             ELSE Route(ErrorHandlers(target)[1].name, "", 0, ErrorHandlers(target)[1].template)
            /\ target \in thrown' <=>
                 Len(ErrorHandlers(target)) + (IF errorRoute # NoRoute THEN 1 ELSE 0) >= 2]_vars

\* the classes B and C are decorated in this order: C has thrown, and the
\* error route is the one of B
OneErrorRouteCase ==
  /\ beans = {"B", "C"}
  /\ thrown = {"C"}
  /\ errorRoute.name = "e1"

(***************************************************************************)
(* The code fragments of a template, in the order compile pushes them      *)
(***************************************************************************)
\* the pieces of a template that hold code, and those of one family
WithCode(ps) == SelectSeq(ps, LAMBDA p : p.kind \in {"interpolate", "if", "elseif", "for", "evaluate"})
OfFamily(ps, family) == SelectSeq(WithCode(ps), LAMBDA p : FamilyOf(p.kind) = family)
CodesOf(ps) == [k \in 1..Len(ps) |-> ps[k].a] \o <<>>

\* C21 as amended: codes holds the fragment of every tag that has code,
\* repeated fragments included, family by family in the order of the
\* passes (interpolation, conditional, iterative, evaluation) and in the
\* order of the text within a family.
CodesByFamily ==
  stage = "declare" =>
    codes = CodesOf(OfFamily(pieces, "interpolate")) \o CodesOf(OfFamily(pieces, "conditional"))
            \o CodesOf(OfFamily(pieces, "iterative")) \o CodesOf(OfFamily(pieces, "evaluate"))

\* C21: codes holds the fragment of every tag that has code, repeated
\* fragments included, in the order of the tags in the text, whatever
\* their families.
CodesInTextOrder == stage = "declare" => codes = CodesOf(WithCode(pieces))

\* a conditional stands before two equal interpolations
CodesByFamilyCase ==
  /\ stage = "declare"
  /\ Len(pieces) = 3
  /\ pieces[1].kind = "if" /\ pieces[2].kind = "interpolate" /\ pieces[3].kind = "interpolate"
  /\ codes = <<" a ", " a ", "a">>

(***************************************************************************)
(* The names of the prologue.                                              *)
(***************************************************************************)
\* the names of a list, each at the place where it stands first
FirstSeen(names) ==
  LET ks == SelectSeq([k \in 1..Len(names) |-> k],
                      LAMBDA k : \A j \in 1..(k - 1) : names[j] # names[k])
  IN [i \in 1..Len(ks) |-> names[ks[i]]] \o <<>>
\* the prologue that names every name of the list once, in its order
PrologueOf(names) ==
  IF names = <<>> THEN <<>> ELSE Chars("let ") \o VarString(names) \o <<";">>

\* C23: the prologue names every variable found in the joined codes once, in
\* the order in which the variables first stand in it, and no empty name;
\* with no variable left the prologue is empty.
PrologueNamesOnce ==
  Past(stage) =>
    LET names == VarNames(CharSeqs(codes))
    IN /\ \A k \in 1..Len(names) : names[k] # <<>>
       /\ source = Str(PrologueOf(FirstSeen(names)) \o Chars("let out='")
                       \o Chars(tmpl) \o Chars("';return out;"))

(***************************************************************************)
(* reduce on raw texts: line breaks, tabs, blanks and the three kinds of   *)
(* comment, in every order                                                  *)
(***************************************************************************)
RawPieces == {Text("a"), Text(" "), Text("\n"), Text("\t"),
              Text("//c"), Text("/*b*/"), Text("<!--h-->")}
MaxRawPieces == 3

InitRaw == \E ps \in SeqsUpTo(RawPieces, MaxRawPieces) : InitRender(ps)
NextRaw == Compile \/ Call({Undefined}) \/ Run
SpecRaw == InitRaw /\ [][NextRaw]_vars

\* the text holds sub
HasText(text, sub) ==
  \E i \in 1..(Len(text) - Len(sub) + 1) : SubSeq(text, i, i + Len(sub) - 1) = sub
\* the piece at place k is the first thing of its line that is not a blank
StartsLine(ps, k) ==
  \A j \in 1..(k - 1) :
    ps[j].text \in {" ", "\t"} \/ \E l \in (j + 1)..(k - 1) : ps[l].text = "\n"
\* every // of the raw text starts a line comment
OnlyLineComments(ps) == \A k \in 1..Len(ps) : ps[k].text = "//c" => StartsLine(ps, k)

\* C24: the text that reduce returns has no line break and no tab, no HTML
\* comment, no block comment and no line comment, and no white space at its
\* ends, wherever the comments of the raw text stand.
ReducedClean ==
  stage = "escape" =>
    /\ \A i \in 1..Len(tmpl) : SubSeq(tmpl, i, i) \notin {"\n", "\r", "\t"}
    /\ ~HasText(tmpl, "<!--") /\ ~HasText(tmpl, "/*")
    /\ OnlyLineComments(pieces) => ~HasText(tmpl, "//")
    /\ tmpl # "" => SubSeq(tmpl, 1, 1) # " " /\ SubSeq(tmpl, Len(tmpl), Len(tmpl)) # " "

(***************************************************************************)
(* One pass of include over the partial tags of a text                     *)
(***************************************************************************)
\* the files the partial tags of the text name, from the left
TagPaths(text) ==
  Then(Chars(text), LAMBDA t :
    Then(MatchAll(Syntax.PARTIAL, t, 1), LAMBDA ms :
      Table([k \in 1..Len(ms) |-> Resolve(tmplRoot, Str(Group(t, ms[k], 1)))])))
\* the text with every partial tag replaced by what the file it names holds
TagsLoaded(text) ==
  Then(Chars(text), LAMBDA t :
    Then(MatchAll(Syntax.PARTIAL, t, 1), LAMBDA ms :
      Str(Splice(t, ms,
                 [k \in 1..Len(ms) |->
                    Chars(OwnValue(disk, Resolve(tmplRoot, Str(Group(t, ms[k], 1)))))],
                 1, 1))))
Pending(c) == {k \in 1..Len(c.reads) : c.reads[k].state = "pending"}

\* C22: a pass over the partial tags starts one read for every tag of the
\* text, the text stays as it is while a read of the pass is pending, and
\* when the last read ends the k-th tag from the left has given way to what
\* the file named by the k-th tag holds, in whatever order the reads ended.
PassByTag ==
  [][\A id \in 1..Len(calls) :
       /\ (calls'[id].pc = "partials" /\ calls'[id] # calls[id]
           /\ (calls[id].pc = "reading" \/ Cardinality(Pending(calls[id])) = 1)) =>
            calls'[id].reads = [k \in 1..Len(TagPaths(calls'[id].tmpl)) |->
                                  PendingRead(TagPaths(calls'[id].tmpl)[k])]
       /\ (calls[id].pc = "partials" /\ Cardinality(Pending(calls[id])) > 1) =>
            calls'[id].tmpl = calls[id].tmpl /\ Len(calls'[id].reads) = Len(calls[id].reads)
       /\ (calls[id].pc = "partials" /\ Cardinality(Pending(calls[id])) = 1
           /\ calls'[id] # calls[id] /\ calls'[id].error # "NotFound") =>
            calls'[id].tmpl = TagsLoaded(calls[id].tmpl)]_vars
\* of two views of a text with two partial tags, one has ended with both
\* tags replaced in their order and the other waits for its first read, its
\* second one ended
PassByTagCase ==
  \E id, other \in 1..Len(calls) :
    /\ calls[id].pc = "done" /\ calls[id].tmpl = "A{{= v }}C"
    /\ calls[other].pc = "partials" /\ Len(calls[other].reads) = 2
    /\ calls[other].reads[1].state = "pending" /\ calls[other].reads[2].state = "ok"

(***************************************************************************)
(* Views of a file whose partial is missing, broken or sound, the partial  *)
(* changing between the views                                               *)
(***************************************************************************)
BrokenFiles == << <<<<"", "a">>, "A{{@b}}">> >>
Mended == {<<"", "b">>}
\* a text whose source new Function rejects, and one it takes
Mendings == {"{{? }}", "B"}

InitBroken ==
  /\ disk = BrokenFiles
  /\ tmplRoot = ""
  /\ attributes = <<>>
  /\ cache = <<>>
  /\ lastIndex = 0
  /\ calls = <<>>
  /\ NoRender
NextBroken ==
  \/ \E n \in DOMAIN ViewDatas : view("a", ViewDatas[n])
  \/ \E id \in 1..MaxCalls, k \in 1..MaxReads : ReadDone(id, k)
  \/ \E path \in Mended, text \in Mendings : WriteFile(path, text)
  \/ \E path \in Mended : RemoveFile(path)
SpecBroken == InitBroken /\ [][NextBroken]_vars

\* C26: the step in which a view fails, a file missing or its source
\* rejected by new Function, leaves the cache as it was, every entry of the
\* cache is the work of a view that ended well, and a view of a path the
\* cache does not hold reads the file again.
FailedViewStoresNothing ==
  [][/\ \A id \in 1..Len(calls) :
          (InFlight(id) /\ calls'[id].pc = "failed"
           /\ calls'[id].error \in {"NotFound", "SyntaxError"}) => cache' = cache
     /\ \A i \in 1..Len(cache') : calls'[cache'[i][2].by].pc = "done"
     /\ (Len(calls') > Len(calls) /\ ~HasOwn(cache, calls'[Len(calls')].file)) =>
          /\ calls'[Len(calls')].pc = "reading"
          /\ calls'[Len(calls')].reads =
               <<PendingRead(Resolve(tmplRoot, calls'[Len(calls')].file))>>]_vars
\* a view has failed on a rejected source, and a later view of the path,
\* the partial mended, has read and compiled the file and ended well
FailedViewStoresNothingCase ==
  /\ Len(calls) = 2
  /\ calls[1].pc = "failed" /\ calls[1].error = "SyntaxError"
  /\ calls[2].pc = "done" /\ calls[2].reads # <<>>
  /\ HasOwn(cache, "a") /\ OwnValue(cache, "a").by = 2

\* C30: whenever include waits, and so whenever another call can run, the
\* lastIndex of Syntax.PARTIAL is 0: every test scans its text from the
\* start, and a view that ended well has left no partial tag in its text.
ScansFromStart ==
  /\ lastIndex = 0
  /\ \A id \in 1..Len(calls) : calls[id].pc = "done" => ~Test(Chars(calls[id].tmpl), 0)
\* a view has ended after a pass over its partial tags while another view
\* waits for the reads of its own pass
ScansFromStartCase ==
  \E id, other \in 1..Len(calls) :
    /\ calls[id].pc = "done" /\ calls[id].reads # <<>> /\ Len(calls[id].reads) = 2
    /\ calls[other].pc = "partials" /\ Pending(calls[other]) # {}

\* C29: no exception leaves handleRequest: whatever the route lookup, an
\* interceptor, the route handler, the render of the template, the error
\* handler or the render of the error template throws, the request ends
\* with the response that response.build() makes, never rejected.
NothingLeavesHandleRequest ==
  \A r \in 1..Len(requests) : requests[r].pc # "rejected"

(***************************************************************************)
(* The router alone: routes added and urls looked up, in any order         *)
(***************************************************************************)
Added == {Route("static", "/a", 0, ""), Route("param", "/:p", 0, ""), Route("wild", "/*", 0, "")}
Urls == {"/a", "/b"}
MaxRoutes == 3
\* add(route)
add(route) ==
  /\ Len(routes) < MaxRoutes
  /\ \A k \in 1..Len(routes) : routes[k].name # route.name
  /\ routes' = Append(routes, route)
  /\ UNCHANGED <<engineVars, renderVars, beans, interceptors, errorRoute, thrown, running,
                 requests, sorted, sessVars>>

InitRouter ==
  /\ disk = <<>>
  /\ tmplRoot = ""
  /\ attributes = <<>>
  /\ cache = <<>>
  /\ lastIndex = 0
  /\ calls = <<>>
  /\ NoRender
NextRouter ==
  \/ Cross
  \/ \E route \in Added : add(route)
  \/ \E url \in Urls : handleRequest(url)
  \/ \E r \in 1..MaxRequests : Handle(r, NoError)
SpecRouter == InitRouter /\ [][NextRouter]_vars

\* C28: whatever routes were added and whatever was looked up before, the
\* route that find returns for a url is a route that matches it and that no
\* other matching route stands before in the sort rule (a literal character
\* before the end of the path, before '*', before ':'); find returns
\* nothing only when no route matches.
FindsFirstRanked ==
  [][Len(requests') > Len(requests) =>
       LET q == requests'[Len(requests')]
           matching == {k \in 1..Len(routes) : exec(routes[k].path, q.path).ok}
       IN IF matching = {} THEN q.route = NoRoute
          ELSE /\ \E k \in matching : routes[k].name = q.route.name
               /\ \A k \in matching : compare(routes[k], q.route) >= 0]_vars

(***************************************************************************)
(* Requests for one route with a parameter, side by side, with the          *)
(* interceptors of one middleware class                                     *)
(***************************************************************************)
UserRoutes == <<Route("user", "/u/:id", 0, "")>>
UserPaths == {"/u/1", "/u/2"}

InitParams ==
  /\ disk = <<>>
  /\ tmplRoot = ""
  /\ attributes = <<>>
  /\ cache = <<>>
  /\ lastIndex = 0
  /\ calls = <<>>
  /\ Idle
  /\ AppOf(UserRoutes)
NextParams ==
  \/ Middleware("A")
  \/ Cross
  \/ \E pathname \in UserPaths : handleRequest(pathname)
  \/ \E r \in 1..MaxRequests :
       \/ Intercept(r, NoError)
       \/ Handle(r, NoError)
SpecParams == InitParams /\ [][NextParams]_vars

\* C25: the params injected for the handler of a request are the ones of
\* the request's own pathname, whatever other requests for the route are
\* under way and wherever the interceptors let them in.
OwnParams ==
  \A r \in 1..Len(requests) :
    (requests[r].pc \in {"handler", "done"} /\ requests[r].route # NoRoute) =>
      requests[r].params = exec(requests[r].route.path, requests[r].path).params

(***************************************************************************)
(* HttpSession: the sessions of the store, made by the constructor from    *)
(* the cookie a client presents, refreshed, destroyed and cleaned up as    *)
(* time passes                                                              *)
(***************************************************************************)
MAX_AGE == 3600
\* the n-th id crypto.randomUUID() makes
Uuid(n) == <<"u1", "u2", "u3", "u4">>[n]
MaxUuids == 2
\* the clock moves by half of MAX_AGE, in milliseconds, MaxTicks times at most
HalfAge == (MAX_AGE * 1000) \div 2
MaxTicks == 3
\* what a client can send as SESSION_ID: nothing, a value of its own making
\* or an id it was given
Cookies == {"", "x"} \cup {Uuid(n) : n \in 1..uuids}

\* new HttpSession(cookie), the cookie holding value as SESSION_ID
HttpSession(value) ==
  /\ value = "" => uuids < MaxUuids
  /\ \E id \in {IF value # "" THEN value ELSE Uuid(uuids + 1)} :
       SESS_STORE' = Set(SESS_STORE, id, now + MAX_AGE * 1000)
  /\ uuids' = IF value # "" THEN uuids ELSE uuids + 1
  /\ UNCHANGED <<engineVars, renderVars, beans, interceptors, errorRoute, thrown, running,
                 requests, routerVars, now>>
\* destroy() of a session with the id
destroy(id) ==
  /\ HasOwn(SESS_STORE, id)
  /\ SESS_STORE' = SelectSeq(SESS_STORE, LAMBDA s : s[1] # id)
  /\ UNCHANGED <<engineVars, renderVars, beans, interceptors, errorRoute, thrown, running,
                 requests, routerVars, now, uuids>>
\* the callback of setInterval: the sessions that have expired are deleted
cleanup ==
  /\ SESS_STORE' = SelectSeq(SESS_STORE, LAMBDA s : ~(s[2] < now))
  /\ UNCHANGED <<engineVars, renderVars, beans, interceptors, errorRoute, thrown, running,
                 requests, routerVars, now, uuids>>
\* time passes
Elapse ==
  /\ now < MaxTicks * HalfAge
  /\ now' = now + HalfAge
  /\ UNCHANGED <<engineVars, renderVars, beans, interceptors, errorRoute, thrown, running,
                 requests, routerVars, SESS_STORE, uuids>>

InitSession ==
  /\ disk = <<>>
  /\ tmplRoot = ""
  /\ attributes = <<>>
  /\ cache = <<>>
  /\ lastIndex = 0
  /\ calls = <<>>
  /\ NoRender
NextSession ==
  \/ \E value \in Cookies : HttpSession(value)
  \/ \E id \in Cookies : destroy(id)
  \/ cleanup
  \/ Elapse
SpecSession == InitSession /\ [][NextSession]_vars

\* C27: every id the session store holds was made by the server: a cookie
\* whose value is not in the store never becomes the id of a session.
ServerMadeIds ==
  \A i \in 1..Len(SESS_STORE) : SESS_STORE[i][1] \in {Uuid(n) : n \in 1..uuids}

====
